---- MODULE Spec2Model ----
(***************************************************************************)
(* Model of the schedule synthesis and synchronisation engine of           *)
(* TeacherScheduler (src/App.tsx and the editors it mounts).               *)
(*                                                                         *)
(* JavaScript strings are modelled as sequences of one-character strings,  *)
(* so that toLowerCase, trim, includes, the /\s+/ and /\d+/ patterns,      *)
(* parseInt and toString are computed character by character.  The empty   *)
(* string (and an absent optional string that the code reads through a     *)
(* truthiness test or `|| ''`) is the empty sequence; the teacherName of a *)
(* stored row, which the code also compares with ===, may be `undefined`.  *)
(***************************************************************************)
EXTENDS Integers, Sequences, FiniteSets, TLC

VARIABLES
    scheduleData,         \* ScheduleRow[]   (global, all teachers)
    equipmentData,        \* EquipmentRow[]  (global, all teachers)
    timetableData,        \* TimetableEntry[]
    ppctData,             \* PPCTEntry[]            (lesson catalog)
    equipmentConfigData,  \* EquipmentConfigEntry[] (equipment catalog)
    teacherName,          \* active teacher
    currentWeek,
    weekStartDate,        \* "YYYY-MM-DD"
    edits                 \* number of editing operations performed so far

vars == <<scheduleData, equipmentData, timetableData, ppctData, equipmentConfigData,
          teacherName, currentWeek, weekStartDate, edits>>

-----------------------------------------------------------------------------
(* Bounds of the model *)

MaxWeek == 2      \* weeks 1..MaxWeek can be visited
MaxEdits == 1     \* editing operations (cell edits, clear week, apply template,
                  \* catalog updates, timetable clear) per behaviour of Spec;
                  \* SpecSolo allows one more

-----------------------------------------------------------------------------
(* Strings *)

UpperChars == <<"A", "M", "N", "T", "X">>
LowerChars == <<"a", "m", "n", "t", "x">>
Digits == <<"0", "1", "2", "3", "4", "5", "6", "7", "8", "9">>

IsDigit(c) == \E i \in 1..Len(Digits) : Digits[i] = c
DigitVal(c) == (CHOOSE i \in 1..Len(Digits) : Digits[i] = c) - 1
IsSpace(c) == c = " "

LowerChar(c) ==
    IF \E i \in 1..Len(UpperChars) : UpperChars[i] = c
    THEN LowerChars[CHOOSE i \in 1..Len(UpperChars) : UpperChars[i] = c]
    ELSE c

toLowerCase(s) == [i \in 1..Len(s) |-> LowerChar(s[i])]

\* s.replace(/\s+/g, '')
StripSpaces(s) == SelectSeq(s, LAMBDA c : ~IsSpace(c))

normalizeStr(s) == StripSpaces(toLowerCase(s))

RECURSIVE trimStart(_)
trimStart(s) == IF s # <<>> /\ IsSpace(Head(s)) THEN trimStart(Tail(s)) ELSE s

RECURSIVE trimEnd(_)
trimEnd(s) ==
    IF s # <<>> /\ IsSpace(s[Len(s)]) THEN trimEnd(SubSeq(s, 1, Len(s) - 1)) ELSE s

trim(s) == trimEnd(trimStart(s))

\* s.includes(t)
includes(s, t) ==
    \E i \in 0..Len(s) : i + Len(t) <= Len(s) /\ SubSeq(s, i + 1, i + Len(t)) = t

RECURSIVE TakeDigits(_)
TakeDigits(s) ==
    IF s # <<>> /\ IsDigit(Head(s)) THEN <<Head(s)>> \o TakeDigits(Tail(s)) ELSE <<>>

\* String(s).match(/\d+/): the first run of digits, <<>> when there is none (null)
RECURSIVE matchDigits(_)
matchDigits(s) ==
    IF s = <<>> THEN <<>>
    ELSE IF IsDigit(Head(s)) THEN TakeDigits(s)
    ELSE matchDigits(Tail(s))

\* parseInt(digits, 10) on a non-empty run of digits
RECURSIVE parseInt(_)
parseInt(ds) ==
    IF ds = <<>> THEN 0
    ELSE 10 * parseInt(SubSeq(ds, 1, Len(ds) - 1)) + DigitVal(ds[Len(ds)])

\* n.toString() for n >= 0
RECURSIVE toString(_)
toString(n) ==
    IF n < 10 THEN <<Digits[n + 1]>>
    ELSE toString(n \div 10) \o <<Digits[(n % 10) + 1]>>

-----------------------------------------------------------------------------
(* Dates.  A Date object is <<year, month, day>>, its UTC calendar date, and
   the Invalid Date is <<>>.  A JavaScript number that may be NaN is a set:
   {n} is the number n and {} is NaN.  Date strings are strings like every
   other: "2024-01-01" is the sequence of its ten characters. *)

IsLeap(y) == (y % 4 = 0 /\ y % 100 # 0) \/ y % 400 = 0

DaysInMonth(y, m) ==
    IF m = 2 THEN (IF IsLeap(y) THEN 29 ELSE 28)
    ELSE IF m \in {4, 6, 9, 11} THEN 30 ELSE 31

NextDay(d) ==
    IF d[3] < DaysInMonth(d[1], d[2]) THEN <<d[1], d[2], d[3] + 1>>
    ELSE IF d[2] < 12 THEN <<d[1], d[2] + 1, 1>>
    ELSE <<d[1] + 1, 1, 1>>

PrevDay(d) ==
    IF d[3] > 1 THEN <<d[1], d[2], d[3] - 1>>
    ELSE IF d[2] > 1 THEN <<d[1], d[2] - 1, DaysInMonth(d[1], d[2] - 1)>>
    ELSE <<d[1] - 1, 12, 31>>

RECURSIVE AddDays(_, _)
AddDays(d, n) ==
    IF n = 0 THEN d
    ELSE IF n > 0 THEN AddDays(NextDay(d), n - 1)
    ELSE AddDays(PrevDay(d), n + 1)

NaN == {}

\* s.split(sep) for a one-character separator
RECURSIVE split(_, _)
split(s, sep) ==
    IF \A i \in 1..Len(s) : s[i] # sep THEN <<s>>
    ELSE LET k == CHOOSE i \in 1..Len(s) : s[i] = sep /\ \A j \in 1..(i - 1) : s[j] # sep
         IN  <<SubSeq(s, 1, k - 1)>> \o split(SubSeq(s, k + 1, Len(s)), sep)

\* parseInt(s, 10) on any string: the leading digits, NaN when there is none
parseIntNaN(s) ==
    LET ds == TakeDigits(trimStart(s))
    IN  IF ds = <<>> THEN NaN ELSE {parseInt(ds)}

\* Number(s): 0 for a blank string, NaN unless every character is a digit
Number(s) ==
    LET t == trim(s)
    IN  IF t = <<>> THEN {0}
        ELSE IF \A i \in 1..Len(t) : IsDigit(t[i]) THEN {parseInt(t)}
        ELSE NaN

\* x - 1 on a number that may be NaN
MinusOne(x) == {n - 1 : n \in x}

\* new Date(Date.UTC(year, monthIndex, day)): months and days out of range
\* roll over, a year in 0..99 is a year of the 20th century
DateUTC(year, monthIndex, day) ==
    IF year = NaN \/ monthIndex = NaN \/ day = NaN THEN <<>>
    ELSE LET y0 == CHOOSE n \in year : TRUE
             y == IF y0 \in 0..99 THEN 1900 + y0 ELSE y0
             m == CHOOSE n \in monthIndex : TRUE
             d == CHOOSE n \in day : TRUE
         IN  AddDays(<<y + (m \div 12), (m % 12) + 1, 1>>, d - 1)

\* s.padStart(2, '0')
padStart2(s) == IF Len(s) < 2 THEN <<"0">> \o s ELSE s

\* the year of toISOString(), four digits
RECURSIVE padStart4(_)
padStart4(s) == IF Len(s) < 4 THEN padStart4(<<"0">> \o s) ELSE s

\* d.toISOString().split('T')[0]
toISODate(d) ==
    padStart4(toString(d[1])) \o <<"-">> \o padStart2(toString(d[2])) \o <<"-">>
        \o padStart2(toString(d[3]))

\* getDayDate(baseDate, daysToAdd)
getDayDate(baseDate, daysToAdd) ==
    IF baseDate = <<>> THEN <<>>
    ELSE LET parts == split(baseDate, "-")
         IN  IF Len(parts) # 3 THEN <<>>
             ELSE LET d == DateUTC(parseIntNaN(parts[1]), MinusOne(parseIntNaN(parts[2])),
                                   parseIntNaN(parts[3]))
                  IN  IF d = <<>> THEN <<>> ELSE toISODate(AddDays(d, daysToAdd))

\* formatDateVN(dateStr): "YYYY-MM-DD" becomes "DD/MM/YYYY"
formatDateVN(dateStr) ==
    IF dateStr = <<>> THEN <<>>
    ELSE LET parts == split(dateStr, "-")
         IN  IF Len(parts) # 3 THEN dateStr
             ELSE parts[3] \o <<"/">> \o parts[2] \o <<"/">> \o parts[1]

\* String(n).padStart(2, '0') of a date component, "NaN" on the Invalid Date
DatePart2(d, k) == IF d = <<>> THEN <<"N", "a", "N">> ELSE padStart2(toString(d[k]))

\* calculateDate(startDateStr, dayOffset) of the export service: "DD/MM"
calculateDate(startDateStr, dayOffset) ==
    LET parts == split(startDateStr, "/")
    IN  IF Len(parts) # 3 THEN <<>>
        ELSE LET d0 == DateUTC(Number(parts[3]), MinusOne(Number(parts[2])), Number(parts[1]))
                 date == IF d0 = <<>> THEN <<>> ELSE AddDays(d0, dayOffset)
             IN  DatePart2(date, 3) \o <<"/">> \o DatePart2(date, 2)

IsDigits(s, n) == Len(s) = n /\ \A i \in 1..Len(s) : IsDigit(s[i])

\* new Date(s) for a date-only string: the ISO form YYYY-MM-DD of a calendar date is
\* midnight UTC of that date.  Every other string is the Invalid Date here (engines
\* parse some of them with their own fallback rules; handleWeekChange is only run
\* on ISO dates and on '').
DateParse(s) ==
    LET parts == split(s, "-")
    IN  IF Len(parts) = 3 /\ IsDigits(parts[1], 4) /\ IsDigits(parts[2], 2)
              /\ IsDigits(parts[3], 2)
        THEN LET y == parseInt(parts[1])
                 m == parseInt(parts[2])
                 d == parseInt(parts[3])
             IN  IF m \in 1..12 /\ d >= 1 /\ d <= DaysInMonth(y, m) THEN <<y, m, d>>
                 ELSE <<>>
        ELSE <<>>

\* Time zones of the browser: UTC offsets in hours; daylight saving time is in effect
\* from local time (from, fromHour) until local time (to, toHour) of 2024.
HoChiMinh == [std |-> 7, dst |-> 7, from |-> <<2024, 1, 1>>, fromHour |-> 0, to |-> <<2024, 1, 1>>, toHour |-> 0]
Berlin == [std |-> 1, dst |-> 2, from |-> <<2024, 3, 31>>, fromHour |-> 2, to |-> <<2024, 10, 27>>, toHour |-> 3]
NewYork == [std |-> -5, dst |-> -4, from |-> <<2024, 3, 10>>, fromHour |-> 2, to |-> <<2024, 11, 3>>, toHour |-> 2]

TimeZones == {HoChiMinh, Berlin, NewYork}

\* (date a, hour ha) is not later than (date b, hour hb)
TimeLeq(a, ha, b, hb) ==
    \/ a[1] < b[1]
    \/ a[1] = b[1] /\ a[2] < b[2]
    \/ a[1] = b[1] /\ a[2] = b[2] /\ a[3] < b[3]
    \/ a = b /\ ha <= hb

\* daylight saving time is in effect at the local time (date, hour)
InDst(tz, date, hour) ==
    /\ tz.dst # tz.std
    /\ TimeLeq(tz.from, tz.fromHour, date, hour)
    /\ ~TimeLeq(tz.to, tz.toHour, date, hour)

\* the wall clock at `hours` past midnight UTC of a date, hours in -23..23
WallClock(date, hours) ==
    IF hours < 0 THEN [date |-> PrevDay(date), hour |-> hours + 24]
    ELSE [date |-> date, hour |-> hours]

\* the local time (getDate, getHours) of midnight UTC of a date
LocalTime(tz, date) ==
    LET std == WallClock(date, tz.std)
        dst == WallClock(date, tz.dst)
    IN  IF tz.dst # tz.std /\ TimeLeq(tz.from, tz.fromHour, std.date, std.hour)
              /\ ~TimeLeq(tz.to, tz.toHour, dst.date, dst.hour)
        THEN dst ELSE std

\* d.setDate(d.getDate() + days) in local time, then d.toISOString().split('T')[0]
setDateToISO(date, days, tz) ==
    LET local == LocalTime(tz, date)
        target == AddDays(local.date, days)
        utcHour == local.hour - (IF InDst(tz, target, local.hour) THEN tz.dst ELSE tz.std)
    IN  toISODate(IF utcHour < 0 THEN PrevDay(target)
                  ELSE IF utcHour >= 24 THEN NextDay(target)
                  ELSE target)

\* the week start date handleWeekChange sets for a week difference
ShiftedStartDate(startDate, weekDiff, tz) ==
    IF startDate # <<>> /\ weekDiff # 0 /\ DateParse(startDate) # <<>>
    THEN setDateToISO(DateParse(startDate), 7 * weekDiff, tz)
    ELSE startDate

-----------------------------------------------------------------------------
(* Data model (src/types.ts) *)

\* 'Thứ 2' .. 'Thứ 7', written without the diacritic
DAYS_OF_WEEK == <<
    <<"T", "h", "u", " ", "2">>, <<"T", "h", "u", " ", "3">>,
    <<"T", "h", "u", " ", "4">>, <<"T", "h", "u", " ", "5">>,
    <<"T", "h", "u", " ", "6">>, <<"T", "h", "u", " ", "7">> >>

TimetableEntry(d, p, s, c, t) ==
    [dayOfWeek |-> d, period |-> p, subject |-> s, className |-> c, teacherName |-> t]

PPCTEntry(s, n, name) == [subject |-> s, lessonNumber |-> n, lessonName |-> name]

EquipmentConfigEntry(s, n, name, q) ==
    [subject |-> s, lessonNumber |-> n, equipmentName |-> name, quantity |-> q]

\* Array.prototype.findIndex: hits are the 1-based positions satisfying the predicate;
\* the 0-based index of the first of them, or -1
FindIndex(hits) ==
    IF hits = {} THEN -1 ELSE (CHOOSE i \in hits : \A j \in hits : i <= j) - 1

\* crypto.randomUUID(): identifiers are only ever compared for equality; the model
\* draws the smallest naturals that no stored row carries (the identifier of a row
\* that was removed can be drawn again)
RECURSIVE FreshIds(_, _)
FreshIds(used, n) ==
    IF n = 0 THEN <<>>
    ELSE LET i == CHOOSE k \in 1..(Cardinality(used) + 1) :
                      k \notin used /\ \A j \in 1..(k - 1) : j \in used
         IN  <<i>> \o FreshIds(used \cup {i}, n - 1)

UsedIds(sched, equip) ==
    {sched[i].id : i \in 1..Len(sched)} \cup {equip[i].id : i \in 1..Len(equip)}

-----------------------------------------------------------------------------
(* Schedule generator (src/App.tsx) *)

\* getLessonName(subject, ppctNum) over the lesson catalog
getLessonName(ppct, subject, ppctNum) ==
    IF subject = <<>> \/ ppctNum = <<>> THEN <<>>
    ELSE LET hit(p) == /\ normalizeStr(p.subject) = normalizeStr(subject)
                       /\ trim(p.lessonNumber) = trim(ppctNum)
             i == FindIndex({ix \in 1..Len(ppct) : hit(ppct[ix])})
         IN  IF i = -1 THEN <<>> ELSE ppct[i + 1].lessonName

\* `${normalizeStr(subject)}_${normalizeStr(className || '')}`
CounterKey(subject, className) ==
    normalizeStr(subject) \o <<"_">> \o normalizeStr(className)

CounterGet(counters, key) == IF key \in DOMAIN counters THEN counters[key] ELSE 0

CounterPut(counters, key, v) ==
    [k \in (DOMAIN counters) \cup {key} |-> IF k = key THEN v ELSE counters[k]]

\* variant: the counter keeps its value
Max2First(a, b) == a

Max2(a, b) == IF a >= b THEN a ELSE b

\* myHistorySchedule.forEach(...): counters from the rows before `week`
RECURSIVE HistoryCounters(_, _, _)
HistoryCounters(rows, week, counters) ==
    IF rows = <<>> THEN counters
    ELSE LET row == Head(rows)
             match == matchDigits(row.ppctNumber)
             key == CounterKey(row.subject, row.className)
             next ==
                 IF row.week < week /\ row.subject # <<>> /\ row.ppctNumber # <<>>
                    /\ match # <<>>
                 THEN CounterPut(counters, key,
                                 Max2(CounterGet(counters, key), parseInt(match)))
                 ELSE counters
         IN  HistoryCounters(Tail(rows), week, next)

\* the day index the sort comparator computes (a.dayOfWeek.includes(d): case-sensitive)
SortDayIndex(label) ==
    LET hit(d) == normalizeStr(d) = normalizeStr(label) \/ includes(label, d)
    IN  FindIndex({ix \in 1..Len(DAYS_OF_WEEK) : hit(DAYS_OF_WEEK[ix])})

\* the day index computed when a row is emitted (case-insensitive includes)
EmitDayIndex(label) ==
    LET hit(d) == \/ normalizeStr(d) = normalizeStr(label)
                  \/ includes(toLowerCase(label), toLowerCase(d))
    IN  FindIndex({ix \in 1..Len(DAYS_OF_WEEK) : hit(DAYS_OF_WEEK[ix])})

\* the comparator of sortedEntries: a goes no later than b
EntryLeq(a, b) ==
    LET da == SortDayIndex(a.dayOfWeek)
        db == SortDayIndex(b.dayOfWeek)
    IN  IF da # db THEN da < db ELSE a.period <= b.period

\* [...teacherEntries].sort(cmp): Array.prototype.sort is stable
RECURSIVE SortEntries(_)
SortEntries(entries) ==
    IF entries = <<>> THEN <<>>
    ELSE LET n == Len(entries)
             e == entries[n]
             front == SortEntries(SubSeq(entries, 1, n - 1))
             keep == {i \in 1..Len(front) : EntryLeq(front[i], e)}
             k == IF keep = {} THEN 0 ELSE CHOOSE i \in keep : \A j \in keep : j <= i
         IN  SubSeq(front, 1, k) \o <<e>> \o SubSeq(front, k + 1, Len(front))

ScheduleRow(id, week, dayOfWeek, date, period, subject, className, ppctNumber, lessonName, notes, tn) ==
    [id |-> id, week |-> week, dayOfWeek |-> dayOfWeek, date |-> date, period |-> period,
     subject |-> subject, className |-> className, ppctNumber |-> ppctNumber,
     lessonName |-> lessonName, notes |-> notes, teacherName |-> tn]

\* variant: the counter is not advanced
NextPPCTSame(currentMax) == currentMax

\* nextPPCT = currentMax + 1
NextPPCT(currentMax) == currentMax + 1

\* variant: a dropped slot takes its number
CountersAfterDropConsuming(counters, key, nextPPCT) == CounterPut(counters, key, nextPPCT)

\* `if (dayIndex === -1) return;` comes before the counter is read: the counters are
\* left as they are
CountersAfterDrop(counters, key, nextPPCT) == counters

\* sortedEntries.forEach(entry => ...): rows emitted from the sorted slots
RECURSIVE EmitRows(_, _, _, _, _, _, _)
EmitRows(entries, counters, ids, week, startDate, tn, ppct) ==
    IF entries = <<>> THEN <<>>
    ELSE LET entry == Head(entries)
             dayIndex == EmitDayIndex(entry.dayOfWeek)
             key == CounterKey(entry.subject, entry.className)
             nextPPCT == NextPPCT(CounterGet(counters, key))
             row == ScheduleRow(Head(ids), week, DAYS_OF_WEEK[dayIndex + 1],
                                getDayDate(startDate, dayIndex), entry.period,
                                entry.subject, entry.className, toString(nextPPCT),
                                getLessonName(ppct, entry.subject, toString(nextPPCT)),
                                <<>>, tn)
         IN  IF dayIndex = -1
             THEN EmitRows(Tail(entries), CountersAfterDrop(counters, key, nextPPCT), ids,
                           week, startDate, tn, ppct)
             ELSE <<row>> \o EmitRows(Tail(entries), CounterPut(counters, key, nextPPCT),
                                      Tail(ids), week, startDate, tn, ppct)

\* the timetable slots of a teacher: case-insensitive substring match
TeacherEntries(tt, tn) ==
    SelectSeq(tt, LAMBDA d : includes(toLowerCase(d.teacherName), toLowerCase(tn)))

\* generateScheduleForWeek(week, startDate, entriesSource), evaluated in a render whose
\* state is (tn, tt, sched, ppct); ids are the identifiers randomUUID will return
generateScheduleForWeek(week, startDate, entriesSource, tn, tt, sched, ppct, ids) ==
    LET teacherEntries ==
            IF entriesSource # <<>> THEN entriesSource
            ELSE IF tn = <<>> \/ tt = <<>> THEN <<>>
            ELSE TeacherEntries(tt, tn)
        myHistorySchedule == SelectSeq(sched, LAMBDA s : s.teacherName = tn)
        counters == HistoryCounters(myHistorySchedule, week, <<>>)
    IN  IF teacherEntries = <<>> THEN <<>>
        ELSE EmitRows(SortEntries(teacherEntries), counters, ids, week, startDate, tn, ppct)

-----------------------------------------------------------------------------
(* Equipment projection and the teacher-scoped merge (src/App.tsx) *)

EquipmentRow(id, week, dayOfWeek, date, period, subject, className, ppctNumber, equipmentName, quantity, tn) ==
    [id |-> id, week |-> week, dayOfWeek |-> dayOfWeek, date |-> date, period |-> period,
     subject |-> subject, className |-> className, ppctNumber |-> ppctNumber,
     equipmentName |-> equipmentName, quantity |-> quantity, teacherName |-> tn]

\* variant: the entry is found by its lesson number alone
ConfigIndexByNumber(eqcfg, schRow) ==
    LET hit(c) == trim(c.lessonNumber) = trim(schRow.ppctNumber)
    IN  FindIndex({ix \in 1..Len(eqcfg) : hit(eqcfg[ix])}) + 1

\* equipmentConfigData.find(c => ...): the index (1-based) of the catalog entry of a
\* schedule row, 0 when there is none
ConfigIndex(eqcfg, schRow) ==
    LET hit(c) == /\ normalizeStr(c.subject) = normalizeStr(schRow.subject)
                  /\ trim(c.lessonNumber) = trim(schRow.ppctNumber)
    IN  FindIndex({ix \in 1..Len(eqcfg) : hit(eqcfg[ix])}) + 1

\* the teacherName of a row stored without one (rows written before the field
\* existed): equal to no string
undefined == <<"undefined">>

\* currentTeacherSchedule / currentTeacherEquipment: (row.teacherName || '') === teacherName
currentTeacherRows(rows, tn) ==
    SelectSeq(rows, LAMBDA r : (IF r.teacherName = undefined THEN <<>> ELSE r.teacherName) = tn)

\* row => ({ ...row, teacherName })
Tagged(rows, tn) == [i \in 1..Len(rows) |-> [rows[i] EXCEPT !.teacherName = tn]]

\* variant: the name comes from the catalog only
ExistingRowNameFromCatalogOnly(hasConfig, configName, oldName) ==
    IF hasConfig THEN configName ELSE <<>>

\* the equipmentName an existing equipment row gets on re-projection
ExistingRowName(hasConfig, configName, oldName) ==
    IF hasConfig THEN configName ELSE oldName

\* variant: without the default "1"
ExistingRowQuantityNoDefault(hasConfig, configQuantity, nextEqName, oldQuantity) ==
    IF hasConfig /\ configQuantity # <<>> THEN configQuantity
    ELSE IF nextEqName # <<>> THEN oldQuantity
    ELSE <<>>

\* the quantity an existing equipment row gets on re-projection
ExistingRowQuantity(hasConfig, configQuantity, nextEqName, oldQuantity) ==
    IF hasConfig /\ configQuantity # <<>> THEN configQuantity
    ELSE IF nextEqName # <<>> THEN (IF oldQuantity # <<>> THEN oldQuantity ELSE <<"1">>)
    ELSE <<>>

\* the quantity a newly created equipment row gets in handleScheduleUpdate
NewRowQuantity(hasConfig, configQuantity, nextEqName) ==
    IF hasConfig THEN (IF configQuantity # <<>> THEN configQuantity ELSE <<"1">>)
    ELSE IF nextEqName # <<>> THEN <<"1">> ELSE <<>>

\* variant: an equipment row is created for every schedule row
ShouldCreateEquipmentAlways(schRow) == TRUE

\* if (schRow.subject || schRow.className): a new equipment row is needed
ShouldCreateEquipment(schRow) == schRow.subject # <<>> \/ schRow.className # <<>>

\* currentWeekScheduleRows.forEach(schRow => ...) of handleScheduleUpdate
RECURSIVE ProjectRows(_, _, _, _, _)
ProjectRows(schRows, myEquipment, eqcfg, tn, ids) ==
    IF schRows = <<>> THEN myEquipment
    ELSE LET schRow == Head(schRows)
             sameCell(e) == /\ e.week = schRow.week
                            /\ e.dayOfWeek = schRow.dayOfWeek
                            /\ e.period = schRow.period
             eqIndex == FindIndex({ix \in 1..Len(myEquipment) : sameCell(myEquipment[ix])})
             ci == ConfigIndex(eqcfg, schRow)
             hasConfig == ci # 0
             configEntry == eqcfg[ci]
             old == myEquipment[eqIndex + 1]
             nextEqName == ExistingRowName(hasConfig,
                               IF hasConfig THEN configEntry.equipmentName ELSE <<>>,
                               old.equipmentName)
             nextQty == ExistingRowQuantity(hasConfig,
                                            IF hasConfig THEN configEntry.quantity ELSE <<>>,
                                            nextEqName, old.quantity)
             updated == [old EXCEPT !.subject = schRow.subject,
                                    !.className = schRow.className,
                                    !.ppctNumber = schRow.ppctNumber,
                                    !.date = schRow.date,
                                    !.equipmentName = nextEqName,
                                    !.quantity = nextQty,
                                    !.teacherName = tn]
             newEqName == IF hasConfig THEN configEntry.equipmentName ELSE <<>>
             created == EquipmentRow(Head(ids), schRow.week, schRow.dayOfWeek, schRow.date,
                                     schRow.period, schRow.subject, schRow.className,
                                     schRow.ppctNumber, newEqName,
                                     NewRowQuantity(hasConfig,
                                         IF hasConfig THEN configEntry.quantity ELSE <<>>,
                                         newEqName),
                                     tn)
         IN  IF eqIndex # -1
             THEN ProjectRows(Tail(schRows), [myEquipment EXCEPT ![eqIndex + 1] = updated],
                              eqcfg, tn, ids)
             ELSE IF ShouldCreateEquipment(schRow)
             THEN ProjectRows(Tail(schRows), Append(myEquipment, created), eqcfg, tn,
                              Tail(ids))
             ELSE ProjectRows(Tail(schRows), myEquipment, eqcfg, tn, ids)

\* variant: the rows of the other teachers are not carried over
MergeScheduleDroppingOthers(prevGlobal, updatedTeacherSchedule, tn) ==
    Tagged(updatedTeacherSchedule, tn)

\* handleScheduleUpdate, part 1: the new global schedule
MergeSchedule(prevGlobal, updatedTeacherSchedule, tn) ==
    SelectSeq(prevGlobal, LAMBDA row : row.teacherName # tn)
        \o Tagged(updatedTeacherSchedule, tn)

\* variant: only the teacher's equipment rows of the current week are carried over
SyncEquipmentOfWeek(prevGlobalEquipment, updatedTeacherSchedule, tn, week, eqcfg, used) ==
    LET otherTeachersEquipment ==
            SelectSeq(prevGlobalEquipment, LAMBDA e : e.teacherName # tn)
        myEquipment ==
            SelectSeq(prevGlobalEquipment, LAMBDA e : e.teacherName = tn /\ e.week = week)
        currentWeekScheduleRows ==
            SelectSeq(updatedTeacherSchedule, LAMBDA s : s.week = week)
        ids == FreshIds(used, Len(currentWeekScheduleRows))
    IN  otherTeachersEquipment
            \o ProjectRows(currentWeekScheduleRows, myEquipment, eqcfg, tn, ids)

\* handleScheduleUpdate, part 2: the new global equipment
SyncEquipment(prevGlobalEquipment, updatedTeacherSchedule, tn, week, eqcfg, used) ==
    LET otherTeachersEquipment ==
            SelectSeq(prevGlobalEquipment, LAMBDA e : e.teacherName # tn)
        myEquipment == SelectSeq(prevGlobalEquipment, LAMBDA e : e.teacherName = tn)
        currentWeekScheduleRows ==
            SelectSeq(updatedTeacherSchedule, LAMBDA s : s.week = week)
        ids == FreshIds(used, Len(currentWeekScheduleRows))
    IN  otherTeachersEquipment
            \o ProjectRows(currentWeekScheduleRows, myEquipment, eqcfg, tn, ids)

\* handleEquipmentUpdate
MergeEquipment(prevGlobal, updatedTeacherEquipment, tn) ==
    SelectSeq(prevGlobal, LAMBDA r : r.teacherName # tn)
        \o Tagged(updatedTeacherEquipment, tn)

-----------------------------------------------------------------------------
(* Auto-populate effect (src/App.tsx) *)

\* variant: looks at the following week
hasDataNextWeek(sched, week, tn) ==
    \E i \in 1..Len(sched) : sched[i].week = week + 1 /\ sched[i].teacherName = tn

hasData(sched, week, tn) ==
    \E i \in 1..Len(sched) : sched[i].week = week /\ sched[i].teacherName = tn

\* variant: without the hasData guard
ShouldGenerateAlways(sched, week, tn, tt) == tt # <<>>

\* if (!hasData && timetableData.length > 0)
ShouldGenerate(sched, week, tn, tt) == ~hasData(sched, week, tn) /\ tt # <<>>

\* newRows.forEach(schRow => myNewEq.push(...)) of the effect
NewEquipmentRows(newRows, eqcfg, tn, ids) ==
    [i \in 1..Len(newRows) |->
        LET schRow == newRows[i]
            ci == ConfigIndex(eqcfg, schRow)
        IN  EquipmentRow(ids[i], schRow.week, schRow.dayOfWeek, schRow.date, schRow.period,
                         schRow.subject, schRow.className, schRow.ppctNumber,
                         IF ci # 0 THEN eqcfg[ci].equipmentName ELSE <<>>,
                         IF ci # 0
                         THEN (IF eqcfg[ci].quantity # <<>> THEN eqcfg[ci].quantity
                               ELSE <<"1">>)
                         ELSE <<>>,
                         tn)]

\* the effect on [currentWeek, teacherName, timetableData], run in a render whose state
\* is the arguments; the result is the pair of stores it leaves
AutoPopulate(sched, equip, tn, week, startDate, tt, ppct, eqcfg) ==
    LET used == UsedIds(sched, equip)
        slots == IF tn = <<>> \/ tt = <<>> THEN 0 ELSE Len(TeacherEntries(tt, tn))
        ids == FreshIds(used, 2 * slots)
        newRows == generateScheduleForWeek(week, startDate, <<>>, tn, tt, sched, ppct,
                                           SubSeq(ids, 1, slots))
        others == SelectSeq(equip, LAMBDA e : e.teacherName # tn)
        myExistingEq == SelectSeq(equip, LAMBDA e : e.teacherName = tn /\ e.week # week)
        myNewEq == NewEquipmentRows(newRows, eqcfg, tn, SubSeq(ids, slots + 1, 2 * slots))
    IN  IF tn = <<>> THEN [sched |-> sched, equip |-> equip]
        ELSE IF ShouldGenerate(sched, week, tn, tt) /\ newRows # <<>>
        THEN [sched |-> sched \o newRows, equip |-> others \o myExistingEq \o myNewEq]
        ELSE [sched |-> sched, equip |-> equip]

-----------------------------------------------------------------------------
(* ScheduleEditor (src/unnamed/part_002) *)

\* ppctMap.get(`${normalizeStr(subject)}_${String(number).trim()}`): Map.set keeps the
\* last entry of a key; <<>> stands for undefined
getLessonNameFromPPCT(ppct, subject, number) ==
    IF subject = <<>> \/ number = <<>> THEN <<>>
    ELSE LET key == normalizeStr(subject) \o <<"_">> \o trim(number)
             hits == {i \in 1..Len(ppct) :
                        normalizeStr(ppct[i].subject) \o <<"_">> \o trim(ppct[i].lessonNumber)
                            = key}
         IN  IF hits = {} THEN <<>>
             ELSE ppct[CHOOSE i \in hits : \A j \in hits : j <= i].lessonName

\* the auto-fill of lessonName in ScheduleEditor.handleCellChange
AutoFillLesson(row, ppct, field, value) ==
    IF field = "ppctNumber"
    THEN IF value = <<>> \/ trim(value) = <<>>
         THEN [row EXCEPT !.lessonName = <<>>]
         ELSE LET foundName == getLessonNameFromPPCT(ppct, row.subject, value)
              IN  IF foundName # <<>> THEN [row EXCEPT !.lessonName = foundName] ELSE row
    ELSE IF field = "subject"
    THEN LET foundName == getLessonNameFromPPCT(ppct, value, row.ppctNumber)
         IN  IF foundName # <<>> THEN [row EXCEPT !.lessonName = foundName] ELSE row
    ELSE row

\* ScheduleEditor.handleCellChange: the row set handed to onUpdateSchedule
ScheduleCellChange(schedule, dayIndex, period, field, value, week, startDate, tn, ppct, id) ==
    LET dayOfWeek == DAYS_OF_WEEK[dayIndex + 1]
        currentDate == getDayDate(startDate, dayIndex)
        sameCell(r) == r.week = week /\ r.dayOfWeek = dayOfWeek /\ r.period = period
        existingRowIndex == FindIndex({ix \in 1..Len(schedule) : sameCell(schedule[ix])})
        updatedRow == [schedule[existingRowIndex + 1] EXCEPT ![field] = value,
                                                             !.date = currentDate,
                                                             !.teacherName = tn]
        newRow == [ScheduleRow(id, week, dayOfWeek, currentDate, period, <<>>, <<>>, <<>>,
                               <<>>, <<>>, tn) EXCEPT ![field] = value]
    IN  IF existingRowIndex >= 0
        THEN [schedule EXCEPT ![existingRowIndex + 1] =
                                  AutoFillLesson(updatedRow, ppct, field, value)]
        ELSE Append(schedule, AutoFillLesson(newRow, ppct, field, value))

\* variant: clears every week
ScheduleClearWeekAll(schedule, week) ==
    [i \in 1..Len(schedule) |->
        [schedule[i] EXCEPT !.subject = <<>>, !.className = <<>>,
                            !.ppctNumber = <<>>, !.lessonName = <<>>]]

\* ScheduleEditor.clearWeek
ScheduleClearWeek(schedule, week) ==
    [i \in 1..Len(schedule) |->
        IF schedule[i].week = week
        THEN [schedule[i] EXCEPT !.subject = <<>>, !.className = <<>>,
                                 !.ppctNumber = <<>>, !.lessonName = <<>>]
        ELSE schedule[i]]

-----------------------------------------------------------------------------
(* EquipmentEditor (src/App.tsx) *)

\* `${e.subject?.trim() || ''}_${String(e.lessonNumber).trim()}`
EquipmentKey(subject, number) == trim(subject) \o <<"_">> \o trim(number)

\* variant: every later name of the key is appended
RECURSIVE MergedEquipmentNameAppending(_, _, _)
MergedEquipmentNameAppending(eqcfg, key, acc) ==
    IF eqcfg = <<>> THEN acc
    ELSE LET e == Head(eqcfg)
         IN  IF EquipmentKey(e.subject, e.lessonNumber) # key
                THEN MergedEquipmentNameAppending(Tail(eqcfg), key, acc)
             ELSE MergedEquipmentNameAppending(Tail(eqcfg), key,
                                               acc \o <<",", " ">> \o e.equipmentName)

\* equipmentMap: entries of one key are merged into a copy of the first
RECURSIVE MergedEquipmentName(_, _, _)
MergedEquipmentName(eqcfg, key, acc) ==
    IF eqcfg = <<>> THEN acc
    ELSE LET e == Head(eqcfg)
         IN  IF EquipmentKey(e.subject, e.lessonNumber) # key
                THEN MergedEquipmentName(Tail(eqcfg), key, acc)
             ELSE IF includes(acc, e.equipmentName)
                THEN MergedEquipmentName(Tail(eqcfg), key, acc)
             ELSE MergedEquipmentName(Tail(eqcfg), key,
                                      acc \o <<",", " ">> \o e.equipmentName)

\* getEquipmentFromConfig(subject, number): [found |-> FALSE] stands for undefined
getEquipmentFromConfig(eqcfg, subject, number) ==
    LET key == EquipmentKey(subject, number)
        hit(e) == EquipmentKey(e.subject, e.lessonNumber) = key
        first == FindIndex({ix \in 1..Len(eqcfg) : hit(eqcfg[ix])})
    IN  IF subject = <<>> \/ number = <<>> \/ first = -1
        THEN [found |-> FALSE, equipmentName |-> <<>>, quantity |-> <<>>]
        ELSE [found |-> TRUE,
              equipmentName |->
                  MergedEquipmentName(SubSeq(eqcfg, first + 2, Len(eqcfg)), key,
                                      eqcfg[first + 1].equipmentName),
              quantity |-> eqcfg[first + 1].quantity]

\* the quantity auto-logic of EquipmentEditor.handleCellChange
QuantityAutoLogic(row, field, value) ==
    IF field # "equipmentName" THEN row
    ELSE IF value = <<>> THEN [row EXCEPT !.quantity = <<>>]
    ELSE IF row.quantity = <<>> THEN [row EXCEPT !.quantity = <<"1">>]
    ELSE row

\* the catalog auto-fill of EquipmentEditor.handleCellChange
AutoFillEquipment(row, eqcfg, field) ==
    LET found == getEquipmentFromConfig(eqcfg, row.subject, row.ppctNumber)
    IN  IF field \in {"ppctNumber", "subject"} /\ row.subject # <<>>
           /\ row.ppctNumber # <<>> /\ found.found
        THEN [row EXCEPT !.equipmentName = found.equipmentName,
                         !.quantity = IF found.quantity # <<>> THEN found.quantity
                                      ELSE <<"1">>]
        ELSE row

\* EquipmentEditor.handleCellChange: the row set handed to onUpdate
EquipmentCellChange(data, dayIndex, period, field, value, week, startDate, tn, eqcfg, id) ==
    LET dayOfWeek == DAYS_OF_WEEK[dayIndex + 1]
        currentDate == getDayDate(startDate, dayIndex)
        sameCell(r) == r.week = week /\ r.dayOfWeek = dayOfWeek /\ r.period = period
        existingRowIndex == FindIndex({ix \in 1..Len(data) : sameCell(data[ix])})
        updatedRow == [data[existingRowIndex + 1] EXCEPT ![field] = value,
                                                         !.date = currentDate,
                                                         !.teacherName = tn]
        newRow == [EquipmentRow(id, week, dayOfWeek, currentDate, period, <<>>, <<>>, <<>>,
                                <<>>, <<>>, tn) EXCEPT ![field] = value]
        currentRow == QuantityAutoLogic(IF existingRowIndex >= 0 THEN updatedRow ELSE newRow,
                                        field, value)
        final == AutoFillEquipment(currentRow, eqcfg, field)
    IN  IF existingRowIndex >= 0
        THEN [data EXCEPT ![existingRowIndex + 1] = final]
        ELSE Append(data, final)

\* EquipmentEditor.clearWeek
EquipmentClearWeek(data, week) == SelectSeq(data, LAMBDA s : s.week # week)

-----------------------------------------------------------------------------
(* Inputs the handlers are driven with *)

An == <<"A", "n">>
Anh == <<"A", "n", "h">>
TeacherNames == {An, Anh}

Thu2 == DAYS_OF_WEEK[1]
Thu3 == DAYS_OF_WEEK[2]
thu3s == <<"t", "h", "u", " ", "3", " ", "s">>     \* 'thứ 3 s' (lower case, with a suffix)

\* "An" is a substring of "Anh": the slots selected for An include those of Anh
Timetable1 == <<
    TimetableEntry(Thu2, 1, <<"M">>, <<"9">>, Anh),
    TimetableEntry(Thu2, 1, <<"M">>, <<"9">>, An),
    TimetableEntry(Thu2, 2, <<"L">>, <<"9">>, Anh),
    TimetableEntry(Thu3, 1, <<"M">>, <<"9">>, Anh) >>

Timetables == {Timetable1}

LessonCatalog1 == <<PPCTEntry(<<"M">>, <<"1">>, <<"X">>)>>
LessonCatalogs == {<<>>, LessonCatalog1}

\* the first entry has no quantity
EquipmentCatalog1 == <<
    EquipmentConfigEntry(<<"M">>, <<"1">>, <<"T">>, <<>>),
    EquipmentConfigEntry(<<"M">>, <<"2">>, <<"X">>, <<"2">>) >>
EquipmentCatalogs == {<<>>, EquipmentCatalog1}

\* the cell the editors are driven on, <<dayIndex, period>>: a cell the timetable
\* fills for both teachers, and an empty one for a teacher or week without rows
EditCells == {<<0, 1>>}

ScheduleEdits == {
    <<"subject", <<"M">>>>, <<"subject", <<>>>>,
    <<"ppctNumber", <<"1">>>>, <<"ppctNumber", <<"x", "7">>>>, <<"ppctNumber", <<"x">>>>,
    <<"notes", <<"n">>>> }

EquipmentEdits == {
    <<"equipmentName", <<"T">>>>, <<"equipmentName", <<>>>>,
    <<"quantity", <<"5">>>>, <<"quantity", <<>>>>,
    <<"ppctNumber", <<"1">>>> }

-----------------------------------------------------------------------------
(* State machine *)

\* the date the date picker holds: Monday 1 January 2024
StartDate1 == <<"2", "0", "2", "4", "-", "0", "1", "-", "0", "1">>

\* the stores as localStorage returns them once the two catalogs have been imported:
\* no timetable, no teacher, no rows yet
Init ==
    /\ scheduleData = <<>>
    /\ equipmentData = <<>>
    /\ timetableData = <<>>
    /\ ppctData = LessonCatalog1
    /\ equipmentConfigData = EquipmentCatalog1
    /\ teacherName = <<>>
    /\ currentWeek = 1
    /\ weekStartDate = StartDate1
    /\ edits = 0

\* the stores after the auto-populate effect has run on the given stores, in the
\* render that follows the handler's state updates
AfterEffect(sched, equip, tn, week, startDate, tt) ==
    AutoPopulate(sched, equip, tn, week, startDate, tt, ppctData, equipmentConfigData)

\* TimetableManager.processParsedData -> setTimetableData; the effect depends on it
processParsedData(entries) ==
    /\ entries # <<>>
    /\ entries # timetableData
    /\ timetableData' = entries
    /\ LET r == AfterEffect(scheduleData, equipmentData, teacherName, currentWeek,
                            weekStartDate, entries)
       IN  scheduleData' = r.sched /\ equipmentData' = r.equip
    /\ UNCHANGED <<ppctData, equipmentConfigData, teacherName, currentWeek, weekStartDate,
                   edits>>

\* TimetableManager.handleClear
handleClear ==
    /\ timetableData # <<>> \/ teacherName # <<>>
    /\ timetableData' = <<>>
    /\ teacherName' = <<>>
    /\ LET r == AfterEffect(scheduleData, equipmentData, <<>>, currentWeek,
                            weekStartDate, <<>>)
       IN  scheduleData' = r.sched /\ equipmentData' = r.equip
    /\ edits' = edits + 1
    /\ UNCHANGED <<ppctData, equipmentConfigData, currentWeek, weekStartDate>>

\* setTeacherName (the teacher inputs of the three editors); the effect depends on it
setTeacherName(name) ==
    /\ name # teacherName
    /\ teacherName' = name
    /\ LET r == AfterEffect(scheduleData, equipmentData, name, currentWeek,
                            weekStartDate, timetableData)
       IN  scheduleData' = r.sched /\ equipmentData' = r.equip
    /\ UNCHANGED <<timetableData, ppctData, equipmentConfigData, currentWeek,
                   weekStartDate, edits>>

\* handleWeekChange(newWeek); the effect depends on currentWeek
handleWeekChange(newWeek) ==
    /\ newWeek # currentWeek
    /\ currentWeek' = newWeek
    /\ weekStartDate' \in
           {ShiftedStartDate(weekStartDate, newWeek - currentWeek, tz) : tz \in TimeZones}
    /\ LET r == AfterEffect(scheduleData, equipmentData, teacherName, newWeek,
                            weekStartDate', timetableData)
       IN  scheduleData' = r.sched /\ equipmentData' = r.equip
    /\ UNCHANGED <<timetableData, ppctData, equipmentConfigData, teacherName, edits>>

\* variant: removes the teacher's rows of every week
ApplyTemplateAllWeeks(prevSchedule, newRows, tn, week) ==
    SelectSeq(prevSchedule, LAMBDA s : s.teacherName # tn) \o newRows

\* the updater handleApplyTimetable passes to setScheduleData: [...otherRows, ...newRows]
ApplyTemplate(prevSchedule, newRows, tn, week) ==
    SelectSeq(prevSchedule, LAMBDA s : s.teacherName # tn \/ s.week # week) \o newRows

\* handleApplyTimetable(entries), called by TimetableManager.handleApply and by the
\* reference dialog of ScheduleEditor with the slots filtered for the active teacher
handleApplyTimetable ==
    LET entries == TeacherEntries(timetableData, teacherName)
        nextTeacher == IF entries[1].teacherName # <<>> THEN entries[1].teacherName
                       ELSE teacherName
        ids == FreshIds(UsedIds(scheduleData, equipmentData), Len(entries))
        newRows == generateScheduleForWeek(currentWeek, weekStartDate, entries, teacherName,
                                           timetableData, scheduleData, ppctData, ids)
        merged == ApplyTemplate(scheduleData, newRows, teacherName, currentWeek)
        r == IF nextTeacher # teacherName
             THEN AfterEffect(merged, equipmentData, nextTeacher, currentWeek,
                              weekStartDate, timetableData)
             ELSE [sched |-> merged, equip |-> equipmentData]
    IN  /\ teacherName # <<>>
        /\ entries # <<>>
        /\ teacherName' = nextTeacher
        /\ scheduleData' = r.sched
        /\ equipmentData' = r.equip
        /\ edits' = edits + 1
        /\ UNCHANGED <<timetableData, ppctData, equipmentConfigData, currentWeek,
                       weekStartDate>>

\* handleScheduleUpdate(updatedTeacherSchedule)
handleScheduleUpdate(updatedTeacherSchedule) ==
    /\ scheduleData' = MergeSchedule(scheduleData, updatedTeacherSchedule, teacherName)
    /\ equipmentData' =
           SyncEquipment(equipmentData, updatedTeacherSchedule, teacherName, currentWeek,
                         equipmentConfigData,
                         UsedIds(scheduleData \o updatedTeacherSchedule, equipmentData))

\* a cell of the schedule sheet is edited
scheduleCellChange(dayIndex, period, field, value) ==
    /\ edits' = edits + 1
    /\ handleScheduleUpdate(
           ScheduleCellChange(currentTeacherRows(scheduleData, teacherName), dayIndex,
                              period, field, value, currentWeek, weekStartDate, teacherName,
                              ppctData,
                              FreshIds(UsedIds(scheduleData, equipmentData), 1)[1]))
    /\ UNCHANGED <<timetableData, ppctData, equipmentConfigData, teacherName, currentWeek,
                   weekStartDate>>

\* "clear week" of the schedule sheet
scheduleClearWeek ==
    /\ edits' = edits + 1
    /\ handleScheduleUpdate(
           ScheduleClearWeek(currentTeacherRows(scheduleData, teacherName), currentWeek))
    /\ UNCHANGED <<timetableData, ppctData, equipmentConfigData, teacherName, currentWeek,
                   weekStartDate>>

\* handleEquipmentUpdate(updatedTeacherEquipment)
handleEquipmentUpdate(updatedTeacherEquipment) ==
    /\ equipmentData' = MergeEquipment(equipmentData, updatedTeacherEquipment, teacherName)
    /\ UNCHANGED scheduleData

\* a cell of the equipment sheet is edited
equipmentCellChange(dayIndex, period, field, value) ==
    /\ edits' = edits + 1
    /\ handleEquipmentUpdate(
           EquipmentCellChange(currentTeacherRows(equipmentData, teacherName), dayIndex,
                               period, field, value, currentWeek, weekStartDate, teacherName,
                               equipmentConfigData,
                               FreshIds(UsedIds(scheduleData, equipmentData), 1)[1]))
    /\ UNCHANGED <<timetableData, ppctData, equipmentConfigData, teacherName, currentWeek,
                   weekStartDate>>

\* "clear week" of the equipment sheet
equipmentClearWeek ==
    /\ edits' = edits + 1
    /\ handleEquipmentUpdate(
           EquipmentClearWeek(currentTeacherRows(equipmentData, teacherName), currentWeek))
    /\ UNCHANGED <<timetableData, ppctData, equipmentConfigData, teacherName, currentWeek,
                   weekStartDate>>

\* PPCTManager onUpdate -> setPpctData
setPpctData(newData) ==
    /\ newData # ppctData
    /\ ppctData' = newData
    /\ edits' = edits + 1
    /\ UNCHANGED <<scheduleData, equipmentData, timetableData, equipmentConfigData,
                   teacherName, currentWeek, weekStartDate>>

\* EquipmentManager onUpdate -> setEquipmentConfigData
setEquipmentConfigData(newData) ==
    /\ newData # equipmentConfigData
    /\ equipmentConfigData' = newData
    /\ edits' = edits + 1
    /\ UNCHANGED <<scheduleData, equipmentData, timetableData, ppctData, teacherName,
                   currentWeek, weekStartDate>>

\* the page is loaded again: the state comes back from localStorage and the effect
\* runs on mount
reload ==
    /\ LET r == AfterEffect(scheduleData, equipmentData, teacherName, currentWeek,
                            weekStartDate, timetableData)
       IN  scheduleData' = r.sched /\ equipmentData' = r.equip
    /\ UNCHANGED <<timetableData, ppctData, equipmentConfigData, teacherName, currentWeek,
                   weekStartDate, edits>>

\* the handlers that do not edit: navigation, teacher switch, timetable import, reload
Navigate(teachers) ==
    \/ \E entries \in Timetables : processParsedData(entries)
    \/ \E name \in teachers : setTeacherName(name)
    \/ \E newWeek \in 1..MaxWeek : handleWeekChange(newWeek)
    \/ reload

\* the editing handlers
Edit ==
    \/ handleClear
    \/ handleApplyTimetable
    \/ \E c \in EditCells, e \in ScheduleEdits : scheduleCellChange(c[1], c[2], e[1], e[2])
    \/ scheduleClearWeek
    \/ \E c \in EditCells, e \in EquipmentEdits : equipmentCellChange(c[1], c[2], e[1], e[2])
    \/ equipmentClearWeek
    \/ \E newData \in LessonCatalogs : setPpctData(newData)
    \/ \E newData \in EquipmentCatalogs : setEquipmentConfigData(newData)

Next ==
    \/ Navigate(TeacherNames)
    \/ edits < MaxEdits /\ Edit

Spec == Init /\ [][Next]_vars

\* one teacher working alone (the other name is never entered), with one more edit
NextSolo ==
    \/ Navigate({Anh})
    \/ edits < MaxEdits + 1 /\ Edit

SpecSolo == Init /\ [][NextSolo]_vars

-----------------------------------------------------------------------------
(* Generation week after week, for any small timetable of one teacher *)

MaxSlots == 3     \* slots of an imported timetable

SlotUniverse ==
    {TimetableEntry(d, p, s, <<"9">>, Anh) :
        d \in {Thu2, thu3s}, p \in {1, 2}, s \in {<<"M">>, <<"L">>}}

SlotSeqs == UNION {[1..n -> SlotUniverse] : n \in 1..MaxSlots}

\* the timetable has been imported and the teacher chosen: week 1 is auto-populated
InitWeeks ==
    /\ timetableData \in SlotSeqs
    /\ ppctData = LessonCatalog1
    /\ equipmentConfigData = EquipmentCatalog1
    /\ teacherName = Anh
    /\ currentWeek = 1
    /\ weekStartDate = StartDate1
    /\ edits = 0
    /\ LET r == AutoPopulate(<<>>, <<>>, teacherName, currentWeek, weekStartDate,
                             timetableData, ppctData, equipmentConfigData)
       IN  scheduleData = r.sched /\ equipmentData = r.equip

\* the weeks are visited in ascending order
NextWeeks == currentWeek < MaxWeek /\ handleWeekChange(currentWeek + 1)

SpecWeeks == InitWeeks /\ [][NextWeeks]_vars

-----------------------------------------------------------------------------
(* Apply template, manual edits and week changes on any small timetable of one
   teacher, whose day labels may be unknown to the generator *)

T2 == <<"T", "2">>      \* 'T2': no label of DAYS_OF_WEEK occurs in it

LabelledSlots ==
    {TimetableEntry(d, p, <<"M">>, <<"9">>, Anh) : d \in {Thu2, thu3s, T2}, p \in {1, 2}}

LabelledSlotSeqs == UNION {[1..n -> LabelledSlots] : n \in 1..MaxSlots}

\* the timetable has been imported and the teacher chosen: week 1 is auto-populated
InitLabels ==
    /\ timetableData \in LabelledSlotSeqs
    /\ ppctData = LessonCatalog1
    /\ equipmentConfigData = EquipmentCatalog1
    /\ teacherName = Anh
    /\ currentWeek = 1
    /\ weekStartDate = StartDate1
    /\ edits = 0
    /\ LET r == AutoPopulate(<<>>, <<>>, teacherName, currentWeek, weekStartDate,
                             timetableData, ppctData, equipmentConfigData)
       IN  scheduleData = r.sched /\ equipmentData = r.equip

NextLabels ==
    \/ currentWeek < MaxWeek /\ handleWeekChange(currentWeek + 1)
    \/ edits < MaxEdits + 1 /\ handleApplyTimetable
    \/ edits < MaxEdits
          /\ \E c \in EditCells, e \in ScheduleEdits : scheduleCellChange(c[1], c[2], e[1], e[2])

SpecLabels == InitLabels /\ [][NextLabels]_vars

-----------------------------------------------------------------------------
(* Generation and cell edits under any stored week start date, well formed or not *)

YearTokens == {<<"2", "0", "2", "4">>, <<"2", "0", "2", "3">>, <<"x">>}
MonthTokens == {<<"0", "1">>, <<"0", "2">>, <<"1", "2">>, <<"x">>}
DayTokens == {<<"0", "1">>, <<"2", "8">>, <<"3", "1">>, <<"x">>, <<"1", "x">>}

\* what localStorage may hold under WEEK_START_DATE: three tokens, two tokens, four
\* tokens, or nothing
StoredDates ==
    {y \o <<"-">> \o m \o <<"-">> \o d : y \in YearTokens, m \in MonthTokens, d \in DayTokens}
        \cup {y \o <<"-">> \o m : y \in YearTokens, m \in MonthTokens}
        \cup {StartDate1 \o <<"-">> \o d : d \in DayTokens}
        \cup {<<>>}

InitDates ==
    /\ scheduleData = <<>>
    /\ equipmentData = <<>>
    /\ timetableData = Timetable1
    /\ ppctData = LessonCatalog1
    /\ equipmentConfigData = EquipmentCatalog1
    /\ teacherName = <<>>
    /\ currentWeek = 1
    /\ weekStartDate \in StoredDates
    /\ edits = 0

NextDates ==
    \/ setTeacherName(Anh)
    \/ edits < MaxEdits /\ handleApplyTimetable
    \/ edits < MaxEdits
          /\ \E c \in EditCells, e \in ScheduleEdits : scheduleCellChange(c[1], c[2], e[1], e[2])
    \/ edits < MaxEdits
          /\ \E c \in EditCells, e \in EquipmentEdits : equipmentCellChange(c[1], c[2], e[1], e[2])

SpecDates == InitDates /\ [][NextDates]_vars

-----------------------------------------------------------------------------
(* Week navigation from any Monday of 2024 *)

MaxMonday == 52     \* the date picker holds a Monday of 2024 among the first MaxMonday + 1

\* the days of 2024 before the first of month m
RECURSIVE DaysBefore(_)
DaysBefore(m) == IF m = 1 THEN 0 ELSE DaysBefore(m - 1) + DaysInMonth(2024, m - 1)

\* 1 January 2024 is a Monday
Mondays ==
    {toISODate(<<2024, md[1], md[2]>>) :
        md \in {md \in (1..12) \X (1..31) :
                   /\ md[2] <= DaysInMonth(2024, md[1])
                   /\ (DaysBefore(md[1]) + md[2] - 1) % 7 = 0
                   /\ DaysBefore(md[1]) + md[2] - 1 <= 7 * MaxMonday}}

InitCalendar ==
    /\ scheduleData = <<>>
    /\ equipmentData = <<>>
    /\ timetableData = <<>>
    /\ ppctData = LessonCatalog1
    /\ equipmentConfigData = EquipmentCatalog1
    /\ teacherName = <<>>
    /\ currentWeek = 1
    /\ weekStartDate \in Mondays
    /\ edits = 0

NextCalendar == \E newWeek \in 1..MaxWeek : handleWeekChange(newWeek)

SpecCalendar == InitCalendar /\ [][NextCalendar]_vars

-----------------------------------------------------------------------------
(* Vocabulary of the properties *)

Rows(store) == {store[i] : i \in 1..Len(store)}

Owned(store, tn) == SelectSeq(store, LAMBDA r : r.teacherName = tn)
NotOwned(store, tn) == SelectSeq(store, LAMBDA r : r.teacherName # tn)

DayIndexOf(row) == CHOOSE i \in 0..5 : DAYS_OF_WEEK[i + 1] = row.dayOfWeek

\* the number a ppctNumber stands for: its first run of digits, -1 when it has none
NumberOf(ppctNumber) ==
    IF matchDigits(ppctNumber) = <<>> THEN -1 ELSE parseInt(matchDigits(ppctNumber))

SamePair(r1, r2) ==
    /\ normalizeStr(r1.subject) = normalizeStr(r2.subject)
    /\ normalizeStr(r1.className) = normalizeStr(r2.className)

\* r1's cell comes before r2's in (week, day index, period) order
CellBefore(r1, r2) ==
    \/ r1.week < r2.week
    \/ r1.week = r2.week /\ DayIndexOf(r1) < DayIndexOf(r2)
    \/ r1.week = r2.week /\ DayIndexOf(r1) = DayIndexOf(r2) /\ r1.period < r2.period

SameCell(r1, r2) ==
    /\ r1.teacherName = r2.teacherName
    /\ r1.week = r2.week
    /\ r1.dayOfWeek = r2.dayOfWeek
    /\ r1.period = r2.period

-----------------------------------------------------------------------------
(* C1 - Sequence monotonicity.  With weeks 1..N generated in ascending order   *)
(* from one timetable, the numbers of one (subject, class) pair are 1, 2, 3,   *)
(* ... without gap, and a slot occurrence at an earlier (week, day index,      *)
(* period) carries the smaller number.                                         *)
C1_SequenceMonotone ==
    \A r1 \in Rows(scheduleData) :
        LET pair == {r \in Rows(scheduleData) : SamePair(r, r1)}
        IN  /\ {NumberOf(r.ppctNumber) : r \in pair} = 1..Cardinality(pair)
            /\ \A r2 \in pair :
                   CellBefore(r1, r2) => NumberOf(r1.ppctNumber) < NumberOf(r2.ppctNumber)

-----------------------------------------------------------------------------
(* C7 - In both stores, a teacher's week holds at most one row per             *)
(* (dayOfWeek, period).                                                        *)
C7_OneRowPerCell ==
    /\ \A r1, r2 \in Rows(scheduleData) : SameCell(r1, r2) => r1 = r2
    /\ \A r1, r2 \in Rows(equipmentData) : SameCell(r1, r2) => r1 = r2

-----------------------------------------------------------------------------
\* the row sets the schedule sheet can hand to handleScheduleUpdate in this state
ScheduleSupplied ==
    LET view == currentTeacherRows(scheduleData, teacherName)
        id == FreshIds(UsedIds(scheduleData, equipmentData), 1)[1]
    IN  {ScheduleCellChange(view, c[1], c[2], e[1], e[2], currentWeek, weekStartDate,
                            teacherName, ppctData, id) :
            c \in EditCells, e \in ScheduleEdits}
        \cup {ScheduleClearWeek(view, currentWeek)}

\* the row sets the equipment sheet can hand to handleEquipmentUpdate in this state
EquipmentSupplied ==
    LET view == currentTeacherRows(equipmentData, teacherName)
        id == FreshIds(UsedIds(scheduleData, equipmentData), 1)[1]
    IN  {EquipmentCellChange(view, c[1], c[2], e[1], e[2], currentWeek, weekStartDate,
                             teacherName, equipmentConfigData, id) :
            c \in EditCells, e \in EquipmentEdits}
        \cup {EquipmentClearWeek(view, currentWeek)}

\* the rows of `store` owned by tn are exactly `supplied`, each stamped with tn
OwnedAreSupplied(store, supplied, tn) ==
    LET mine == Owned(store, tn)
    IN  /\ Len(mine) = Len(supplied)
        /\ \A i \in 1..Len(mine) :
               /\ mine[i].teacherName = tn
               /\ \A f \in (DOMAIN mine[i]) \ {"teacherName"} : mine[i][f] = supplied[i][f]

ScheduleEditStep ==
    \/ \E c \in EditCells, e \in ScheduleEdits : scheduleCellChange(c[1], c[2], e[1], e[2])
    \/ scheduleClearWeek

EquipmentEditStep ==
    \/ \E c \in EditCells, e \in EquipmentEdits : equipmentCellChange(c[1], c[2], e[1], e[2])
    \/ equipmentClearWeek

(* C2 - Partition safety.  handleScheduleUpdate and handleEquipmentUpdate for   *)
(* the active teacher leave every row of the other teachers unchanged, and the *)
(* rows the active teacher owns afterwards are exactly the supplied rows, each *)
(* stamped with the active teacher.                                            *)
C2_PartitionSafety ==
    [][ /\ \A supplied \in ScheduleSupplied :
               ScheduleEditStep /\ handleScheduleUpdate(supplied) =>
                   /\ NotOwned(scheduleData', teacherName) = NotOwned(scheduleData, teacherName)
                   /\ NotOwned(equipmentData', teacherName)
                          = NotOwned(equipmentData, teacherName)
                   /\ OwnedAreSupplied(scheduleData', supplied, teacherName)
        /\ \A supplied \in EquipmentSupplied :
               EquipmentEditStep /\ handleEquipmentUpdate(supplied) =>
                   /\ NotOwned(equipmentData', teacherName)
                          = NotOwned(equipmentData, teacherName)
                   /\ OwnedAreSupplied(equipmentData', supplied, teacherName)
      ]_vars

\* both sheets have been edited for one teacher while another teacher owns rows
C2_Witness ==
    /\ edits >= 1
    /\ \E r \in Rows(scheduleData) : r.teacherName = An /\ r.notes = <<"n">>
    /\ \E r \in Rows(scheduleData) : r.teacherName = Anh
    /\ \E r \in Rows(equipmentData) : r.teacherName = Anh

-----------------------------------------------------------------------------
(* C3 - Idempotent re-entry.  Running auto-populate again for the same teacher *)
(* and week with the same timetable and catalogs changes nothing in the        *)
(* schedule store: no row is added and no row changes.                         *)
C3_IdempotentReentry ==
    AutoPopulate(scheduleData, equipmentData, teacherName, currentWeek, weekStartDate,
                 timetableData, ppctData, equipmentConfigData).sched = scheduleData

\* auto-populate has generated the three rows of Anh's current week
C3_Witness ==
    /\ teacherName = Anh
    /\ timetableData # <<>>
    /\ edits = 0
    /\ Cardinality({r \in Rows(scheduleData) :
                       r.teacherName = Anh /\ r.week = currentWeek}) = 3

-----------------------------------------------------------------------------
\* the schedule sheet edits the cell of row r
ScheduleEditOfCell(r) ==
    \E c \in EditCells, e \in ScheduleEdits :
        /\ scheduleCellChange(c[1], c[2], e[1], e[2])
        /\ r.dayOfWeek = DAYS_OF_WEEK[c[1] + 1]
        /\ r.period = c[2]

(* C9 - The ppctNumber of a stored schedule row changes only when its teacher  *)
(* and week are regenerated by apply template, or when the user edits or       *)
(* clears that row; every other step keeps the row and its ppctNumber.         *)
C9_NumberKept ==
    [][ \A r \in Rows(scheduleData) :
            ~(/\ edits' # edits
              /\ r.teacherName = teacherName
              /\ r.week = currentWeek
              /\ handleApplyTimetable \/ scheduleClearWeek \/ ScheduleEditOfCell(r))
            => \E r2 \in Rows(scheduleData') :
                   /\ r2.id = r.id
                   /\ SameCell(r2, r)
                   /\ r2.ppctNumber = r.ppctNumber
      ]_vars

\* a numbered row of week 1 is still stored after an edit in week 2
C9_Witness ==
    /\ edits >= 1
    /\ currentWeek = 2
    /\ \E r \in Rows(scheduleData) :
           r.teacherName = Anh /\ r.week = 2 /\ r.ppctNumber = <<"x", "7">>
    /\ \E r \in Rows(scheduleData) :
           r.teacherName = Anh /\ r.week = 1 /\ r.ppctNumber = <<"1">>

-----------------------------------------------------------------------------
(* C10 - Auto-populate guard.  A step that only runs auto-populate changes the *)
(* schedule store only when the active teacher had no row in the current week  *)
(* and the timetable is not empty; a teacher and week that have a row are left *)
(* as they are.                                                                *)
C10_AutoPopulateGuard ==
    [][ edits' = edits /\ scheduleData' # scheduleData =>
            /\ ~hasData(scheduleData, currentWeek', teacherName')
            /\ timetableData' # <<>>
      ]_vars

\* the edited week 1 is shown again after week 2 was generated from it
C10_Witness ==
    /\ currentWeek = 1
    /\ \E r \in Rows(scheduleData) :
           r.teacherName = Anh /\ r.week = 1 /\ r.ppctNumber = <<"x", "7">>
    /\ \E r \in Rows(scheduleData) :
           r.teacherName = Anh /\ r.week = 2 /\ r.ppctNumber = <<"8">>

-----------------------------------------------------------------------------
\* the rows a step adds to the schedule store
AddedRows == Rows(scheduleData') \ Rows(scheduleData)

\* a step in which the generator ran: auto-populate or apply template
GenerationStep ==
    \/ edits' = edits /\ scheduleData' # scheduleData
    \/ edits' # edits /\ handleApplyTimetable

\* the numbers the history of row r holds: those parsed from the stored rows of r's
\* teacher with an earlier week, a subject and r's normalized subject and class
HistoryNumbers(r) ==
    {NumberOf(h.ppctNumber) :
        h \in {h \in Rows(scheduleData) :
                  /\ h.teacherName = r.teacherName
                  /\ h.week < r.week
                  /\ h.subject # <<>>
                  /\ SamePair(h, r)
                  /\ NumberOf(h.ppctNumber) >= 0}}

SetMax(S) == IF S = {} THEN 0 ELSE CHOOSE m \in S : \A n \in S : n <= m

(* C4 - History resumption.  The first number generated for a (subject, class) *)
(* pair in week w is 1 + the greatest number parsed from the active teacher's  *)
(* stored rows of earlier weeks with a subject and the same normalized subject *)
(* and class, and 1 when there is none; unparsable numbers, other teachers'    *)
(* rows and rows of weeks >= w do not count.                                   *)
C4_HistoryResumption ==
    [][ GenerationStep =>
            \A r \in AddedRows :
                LET first == SetMax(HistoryNumbers(r)) + 1
                IN  /\ NumberOf(r.ppctNumber) >= first
                    /\ \E r1 \in AddedRows :
                           /\ r1.teacherName = r.teacherName
                           /\ SamePair(r1, r)
                           /\ NumberOf(r1.ppctNumber) = first
      ]_vars

\* week 2 was generated after the number of a week 1 row was edited to "x7", with
\* rows of the other teacher stored for the same subject and class
C4_Witness ==
    /\ \E r \in Rows(scheduleData) :
           r.teacherName = Anh /\ r.week = 1 /\ r.ppctNumber = <<"x", "7">>
    /\ \E r \in Rows(scheduleData) :
           r.teacherName = Anh /\ r.week = 2 /\ r.ppctNumber = <<"9">>
    /\ \E r \in Rows(scheduleData) : r.teacherName = An /\ r.week = 1

-----------------------------------------------------------------------------
(* C8 - For a (teacher, subject, class), every row generated later carries a   *)
(* number strictly greater than every number generated earlier, in whatever    *)
(* order the weeks are visited.                                                *)
C8_IncreasingInGenerationOrder ==
    [][ edits' = 0 /\ GenerationStep =>
            \A r \in AddedRows : \A r0 \in Rows(scheduleData) :
                r0.teacherName = r.teacherName /\ SamePair(r0, r)
                    => NumberOf(r0.ppctNumber) < NumberOf(r.ppctNumber)
      ]_vars

(* C8 (amended) - Every generated row carries a number strictly greater than   *)
(* every number parsed from the stored rows of the same teacher, subject and   *)
(* class in the weeks before the generated week, in whatever order the weeks   *)
(* are visited.                                                                *)
C8_IncreasingInWeekOrder ==
    [][ GenerationStep =>
            \A r \in AddedRows : \A n \in HistoryNumbers(r) : n < NumberOf(r.ppctNumber)
      ]_vars

\* week 1 was generated after week 2: both weeks start at number 1
C8_Witness ==
    /\ edits = 0
    /\ \E r1, r2 \in Rows(scheduleData) :
           /\ r1.teacherName = Anh /\ r2.teacherName = Anh
           /\ r1.week = 1 /\ r2.week = 2
           /\ r1.id > r2.id
           /\ SamePair(r1, r2)
           /\ r1.ppctNumber = <<"1">> /\ r2.ppctNumber = <<"1">>

-----------------------------------------------------------------------------
\* the catalog entry the projection finds for a schedule row: 0 when there is none
CatalogMatch(s) ==
    LET hits == {i \in 1..Len(equipmentConfigData) :
                    /\ normalizeStr(equipmentConfigData[i].subject) = normalizeStr(s.subject)
                    /\ trim(equipmentConfigData[i].lessonNumber) = trim(s.ppctNumber)}
    IN  IF hits = {} THEN 0 ELSE CHOOSE i \in hits : \A j \in hits : i <= j

\* a step that projects the schedule rows of the active teacher's current week
\* onto the equipment store: a schedule edit, or a generation by auto-populate
ProjectionStep == ScheduleEditStep \/ (edits' = edits /\ scheduleData' # scheduleData)

\* the schedule rows such a step projects
ProjectedRows ==
    IF ScheduleEditStep
    THEN {s \in Rows(scheduleData') : s.teacherName = teacherName /\ s.week = currentWeek}
    ELSE AddedRows

\* the equipment rows of the active teacher stored for the cell of s before the step
EquipmentBefore(s) ==
    {e \in Rows(equipmentData) :
        /\ e.teacherName = s.teacherName
        /\ e.week = s.week /\ e.dayOfWeek = s.dayOfWeek /\ e.period = s.period}

EquipmentAfter(s) ==
    {e \in Rows(equipmentData') :
        /\ e.teacherName = s.teacherName
        /\ e.week = s.week /\ e.dayOfWeek = s.dayOfWeek /\ e.period = s.period}

(* C5 - Catalog precedence.  When a projected schedule row has a catalog       *)
(* match, the equipment row of its cell gets the catalog's equipmentName and   *)
(* quantity, "1" when the catalog entry has no quantity, whatever the          *)
(* equipment row held before.                                                  *)
C5_CatalogPrecedence ==
    [][ ProjectionStep =>
            \A s \in ProjectedRows :
                CatalogMatch(s) # 0 =>
                    LET c == equipmentConfigData[CatalogMatch(s)]
                    IN  /\ EquipmentAfter(s) # {}
                        /\ \A e \in EquipmentAfter(s) :
                               /\ e.equipmentName = c.equipmentName
                               /\ e.quantity = IF c.quantity # <<>> THEN c.quantity
                                               ELSE <<"1">>
      ]_vars

(* C5 (amended) - When a projected schedule row has a catalog match, the       *)
(* equipment row of its cell gets the catalog's equipmentName, and the         *)
(* catalog's quantity when the entry has one; when the entry has none, an      *)
(* equipment row that existed for the cell keeps its own quantity if it is not *)
(* empty, and the quantity is "1" in every other case.                         *)
C5_CatalogPrecedenceKeepingQuantity ==
    [][ ProjectionStep =>
            \A s \in ProjectedRows :
                CatalogMatch(s) # 0 =>
                    LET c == equipmentConfigData[CatalogMatch(s)]
                        kept == IF ScheduleEditStep
                                THEN {e.quantity : e \in EquipmentBefore(s)} \ {<<>>}
                                ELSE {}
                    IN  /\ EquipmentAfter(s) # {}
                        /\ \A e \in EquipmentAfter(s) :
                               /\ e.equipmentName = c.equipmentName
                               /\ IF c.quantity # <<>> THEN e.quantity = c.quantity
                                  ELSE IF kept # {} THEN e.quantity \in kept
                                  ELSE e.quantity = <<"1">>
      ]_vars

\* a schedule edit re-projected a row whose catalog entry has no quantity onto an
\* equipment row holding the quantity "5"
C5_Witness ==
    /\ edits = 2
    /\ \E s \in Rows(scheduleData) :
           /\ s.teacherName = Anh /\ s.week = currentWeek /\ s.notes = <<"n">>
           /\ CatalogMatch(s) # 0
           /\ equipmentConfigData[CatalogMatch(s)].quantity = <<>>
           /\ \E e \in Rows(equipmentData) :
                  /\ SameCell(e, s)
                  /\ e.equipmentName = <<"T">>
                  /\ e.quantity = <<"5">>

-----------------------------------------------------------------------------
(* C6 - Manual preservation.  When a schedule row without catalog match is     *)
(* re-projected onto an equipment row that exists for its cell, the equipment  *)
(* row's equipmentName and quantity are what they were before.                 *)
C6_ManualPreservation ==
    [][ ScheduleEditStep =>
            \A s \in ProjectedRows :
                CatalogMatch(s) = 0 =>
                    \A e0 \in EquipmentBefore(s) : \E e \in EquipmentAfter(s) :
                        /\ e.id = e0.id
                        /\ e.equipmentName = e0.equipmentName
                        /\ e.quantity = e0.quantity
      ]_vars

(* C6 (amended) - When a schedule row without catalog match is re-projected    *)
(* onto an equipment row that exists for its cell, the equipmentName is what   *)
(* it was; the quantity is what it was when the name and the quantity are both *)
(* non-empty, "1" when the name is non-empty and the quantity was empty, and   *)
(* empty when the name is empty.                                               *)
C6_ManualPreservationQuantityRule ==
    [][ ScheduleEditStep =>
            \A s \in ProjectedRows :
                CatalogMatch(s) = 0 =>
                    \A e0 \in EquipmentBefore(s) : \E e \in EquipmentAfter(s) :
                        /\ e.id = e0.id
                        /\ e.equipmentName = e0.equipmentName
                        /\ e.quantity = IF e0.equipmentName = <<>> THEN <<>>
                                        ELSE IF e0.quantity = <<>> THEN <<"1">>
                                        ELSE e0.quantity
      ]_vars

\* a schedule row whose number was edited to "x" has no catalog match any more: its
\* equipment row kept the name "T" and the quantity "5" entered by hand
C6_Witness ==
    /\ edits = 2
    /\ \E s \in Rows(scheduleData) :
           /\ s.teacherName = Anh /\ s.week = currentWeek /\ s.ppctNumber = <<"x">>
           /\ CatalogMatch(s) = 0
           /\ \E e \in Rows(equipmentData) :
                  /\ SameCell(e, s)
                  /\ e.equipmentName = <<"T">>
                  /\ e.quantity = <<"5">>

-----------------------------------------------------------------------------
\* row s names a lesson
HasLesson(s) == s.subject # <<>> \/ s.className # <<>>

(* C11 - Every equipment row has a schedule row of the same teacher, week,     *)
(* day and period whose subject or className is not empty.                     *)
C11_EquipmentHasSchedule ==
    \A e \in Rows(equipmentData) :
        \E s \in Rows(scheduleData) : SameCell(s, e) /\ HasLesson(s)

(* C11 (amended) - Every equipment row that the schedule projection or         *)
(* auto-populate creates has a schedule row of the same teacher, week, day and *)
(* period whose subject or className is not empty.  Equipment rows typed into  *)
(* the equipment sheet, and those whose schedule row was cleared, can lack it. *)
C11_CreatedEquipmentHasSchedule ==
    [][ ProjectionStep =>
            \A e \in Rows(equipmentData') :
                (\A e0 \in Rows(equipmentData) : e0.id # e.id) =>
                    \E s \in Rows(scheduleData') : SameCell(s, e) /\ HasLesson(s)
      ]_vars

\* a subject typed into an empty cell of the schedule sheet created the equipment row
\* of that cell
C11_Witness ==
    /\ edits = 1
    /\ timetableData = <<>>
    /\ Len(scheduleData) = 1
    /\ Len(equipmentData) = 1
    /\ scheduleData[1].subject = <<"M">>
    /\ equipmentData[1].subject = <<"M">>
    /\ SameCell(scheduleData[1], equipmentData[1])

-----------------------------------------------------------------------------
\* every schedule row of `sched` that names a lesson has an equipment row in `equip`
\* for the same teacher, week, day and period with its subject, className, ppctNumber
Lockstep(sched, equip) ==
    \A s \in Rows(sched) :
        HasLesson(s) =>
            \E e \in Rows(equip) :
                /\ SameCell(e, s)
                /\ e.subject = s.subject
                /\ e.className = s.className
                /\ e.ppctNumber = s.ppctNumber

(* C12 - Lockstep: at every moment, every schedule row that has a subject or
   a class has an equipment row of the same cell that carries the same
   subject, class and lesson number, whatever sequence of auto-populate, apply
   template, schedule edit, clear week, equipment edit and equipment clear
   week led there. *)
C12_Lockstep == Lockstep(scheduleData, equipmentData)

-----------------------------------------------------------------------------
\* the generator has nothing to emit for teacher tn: no slot of the timetable matches
\* the teacher, or every matching slot carries a day label it does not recognise
NothingToGenerate(tt, tn) ==
    \A i \in 1..Len(tt) :
        includes(toLowerCase(tt[i].teacherName), toLowerCase(tn)) =>
            EmitDayIndex(tt[i].dayOfWeek) = -1

\* a step in which only the auto-populate effect may have written the schedule
EffectStep == edits' = edits

ApplyStep == edits' # edits /\ handleApplyTimetable

(* C13 - When the generator has nothing to emit, neither auto-populate nor apply
   template removes or changes a row of the schedule store: every row stored
   before the step is stored after it. *)
C13_EmptyGenerationKeepsRows ==
    [][ NothingToGenerate(timetableData, teacherName) /\ (EffectStep \/ ApplyStep)
            => Rows(scheduleData) \subseteq Rows(scheduleData')
      ]_vars

-----------------------------------------------------------------------------
\* the calendar dates the stored week start dates denote when they are well formed
CalendarDates ==
    {dt \in {2023, 2024} \X {1, 2, 12} \X {1, 28, 31} : dt[3] <= DaysInMonth(dt[1], dt[2])}

\* "DD/MM" of a calendar date
DayMonth(dt) == padStart2(toString(dt[3])) \o <<"/">> \o padStart2(toString(dt[2]))

\* a date string with a wrong token count or with a part that is not a number
MalformedDate(s) ==
    LET parts == split(s, "-")
    IN  \/ Len(parts) # 3
        \/ \E k \in 1..3 : ~(parts[k] # <<>> /\ \A i \in 1..Len(parts[k]) : IsDigit(parts[k][i]))

(* C14 - Week/date calculator.  For a valid week start date, day index i in 0..5
   maps to the calendar date i days later: getDayDate gives that date and the
   exported sheet (calculateDate on the formatted start date) gives its "DD/MM";
   "2024-01-01" with index 0 gives "01/01".  For an invalid start date (wrong
   token count or a non-numeric part) both give the empty string. *)
C14_DayIndexToDate ==
    \A i \in 0..5 :
        /\ \A dt \in CalendarDates :
               weekStartDate = toISODate(dt) =>
                   /\ getDayDate(weekStartDate, i) = toISODate(AddDays(dt, i))
                   /\ calculateDate(formatDateVN(weekStartDate), i) = DayMonth(AddDays(dt, i))
        /\ MalformedDate(weekStartDate) =>
               /\ getDayDate(weekStartDate, i) = <<>>
               /\ calculateDate(formatDateVN(weekStartDate), i) = <<>>

-----------------------------------------------------------------------------
(* C15 - Week navigation keeps the week number and the start date consistent:
   a week change with a valid start date sets weekStartDate to the old start
   date plus 7 * (newWeek - oldWeek) days (so that weekStartDate - 7 * currentWeek
   days never changes and returning to a week restores its start date). *)
C15_WeekShiftsStartDate ==
    [][ currentWeek' # currentWeek /\ DateParse(weekStartDate) # <<>>
            => weekStartDate' =
                   toISODate(AddDays(DateParse(weekStartDate), 7 * (currentWeek' - currentWeek)))
      ]_vars

-----------------------------------------------------------------------------
\* row r with the four lesson fields emptied
Cleared(r) ==
    [r EXCEPT !.subject = <<>>, !.className = <<>>, !.ppctNumber = <<>>, !.lessonName = <<>>]

(* C16 - Clear week on the schedule empties subject, className, ppctNumber and
   lessonName of every row of the active teacher in the current week, keeps
   everything else of such a row (id, key, notes), and leaves the rows of other
   weeks and of other teachers as they are. *)
C16_ClearWeek ==
    [][ edits' # edits /\ scheduleClearWeek =>
            /\ Len(scheduleData') = Len(scheduleData)
            /\ \A r \in Rows(scheduleData) :
                   IF r.teacherName = teacherName /\ r.week = currentWeek
                   THEN Cleared(r) \in Rows(scheduleData')
                   ELSE r \in Rows(scheduleData')
      ]_vars

\* the week of the active teacher has been cleared while another teacher and another
\* week still hold their lessons
C16_Witness ==
    /\ edits = 1
    /\ currentWeek = 2
    /\ Cardinality({r \in Rows(scheduleData) : r.teacherName = teacherName /\ r.week = 2}) >= 2
    /\ \A r \in Rows(scheduleData) :
           r.teacherName = teacherName /\ r.week = 2 => r = Cleared(r) /\ r.date # <<>>
    /\ \E r \in Rows(scheduleData) :
           r.teacherName = teacherName /\ r.week = 1 /\ r.subject # <<>>
    /\ \E r \in Rows(scheduleData) : r.teacherName # teacherName /\ r.subject # <<>>

-----------------------------------------------------------------------------
\* the rows the generator returns to handleApplyTimetable in the current state
FreshlyGenerated ==
    LET entries == TeacherEntries(timetableData, teacherName)
    IN  generateScheduleForWeek(currentWeek, weekStartDate, entries, teacherName,
                                timetableData, scheduleData, ppctData,
                                FreshIds(UsedIds(scheduleData, equipmentData), Len(entries)))

(* C17 - Apply template replaces only the active teacher's rows of the current
   week: afterwards the rows stored for (active teacher, current week) are
   exactly the freshly generated rows, and every row of another teacher or of
   another week is stored unchanged. *)
C17_ApplyReplacesOneWeek ==
    [][ ApplyStep =>
            /\ {r \in Rows(scheduleData') : r.teacherName = teacherName /\ r.week = currentWeek}
                   = Rows(FreshlyGenerated)
            /\ \A r \in Rows(scheduleData) :
                   r.teacherName # teacherName \/ r.week # currentWeek
                       => r \in Rows(scheduleData')
      ]_vars

\* the template has been applied to week 2 of a teacher (the rows are newer than the
\* equipment rows of their cells) while week 1 and another teacher hold rows
C17_Witness ==
    /\ edits = 1
    /\ currentWeek = 2
    /\ Cardinality({r \in Rows(scheduleData) : r.teacherName = teacherName /\ r.week = 2}) >= 2
    /\ \A r \in Rows(scheduleData) :
           r.teacherName = teacherName /\ r.week = 2 =>
               \E e \in Rows(equipmentData) : SameCell(e, r) /\ e.id < r.id
    /\ \E r \in Rows(scheduleData) : r.teacherName = teacherName /\ r.week = 1
    /\ \E r \in Rows(scheduleData) : r.teacherName # teacherName

-----------------------------------------------------------------------------
\* r1's cell comes before r2's in (day index, period) order
EarlierInWeek(r1, r2) ==
    \/ DayIndexOf(r1) < DayIndexOf(r2)
    \/ DayIndexOf(r1) = DayIndexOf(r2) /\ r1.period < r2.period

(* C18 - Within one generated week the numbers follow (day index, period)
   order: of two rows generated for the same teacher, week, subject and class,
   the one with the earlier (day index, period) has the smaller ppctNumber,
   whatever accepted spelling the timetable uses for the day. *)
C18_NumbersFollowDayOrder ==
    \A r1, r2 \in Rows(scheduleData) :
        /\ r1.teacherName = r2.teacherName
        /\ r1.week = r2.week
        /\ SamePair(r1, r2)
        /\ EarlierInWeek(r1, r2)
        => NumberOf(r1.ppctNumber) < NumberOf(r2.ppctNumber)

-----------------------------------------------------------------------------
\* the positions of the timetable slots of the active teacher whose day is recognised
RecognisedSlots ==
    {i \in 1..Len(timetableData) :
        /\ includes(toLowerCase(timetableData[i].teacherName), toLowerCase(teacherName))
        /\ EmitDayIndex(timetableData[i].dayOfWeek) # -1}

(* C19 - A slot whose day label matches none of the six day labels is dropped
   silently.  When the generator runs, it emits exactly one row per recognised
   slot, for the day and period of the slot, and the numbers of the emitted
   rows are consecutive from the history maximum plus one: the dropped slot
   has no row, takes no number and does not stop the slots after it. *)
C19_UnknownDayDropped ==
    [][ GenerationStep =>
            /\ Cardinality(AddedRows) = Cardinality(RecognisedSlots)
            /\ \A i \in RecognisedSlots :
                   \E r \in AddedRows :
                       /\ r.dayOfWeek = DAYS_OF_WEEK[EmitDayIndex(timetableData[i].dayOfWeek) + 1]
                       /\ r.period = timetableData[i].period
                       /\ r.subject = timetableData[i].subject
                       /\ r.className = timetableData[i].className
            /\ \A r \in AddedRows :
                   {NumberOf(x.ppctNumber) : x \in AddedRows}
                       = (SetMax(HistoryNumbers(r)) + 1)
                             .. (SetMax(HistoryNumbers(r)) + Cardinality(RecognisedSlots))
      ]_vars

\* week 2 was generated from a timetable whose first slot is unknown to the generator
\* and whose other two slots are not
C19_Witness ==
    /\ currentWeek = 2
    /\ Len(timetableData) = 3
    /\ timetableData[1].dayOfWeek = T2
    /\ Cardinality(RecognisedSlots) = 2
    /\ {r.ppctNumber : r \in {r \in Rows(scheduleData) : r.week = 2}} = {<<"3">>, <<"4">>}
    /\ {r.ppctNumber : r \in {r \in Rows(scheduleData) : r.week = 1}} = {<<"1">>, <<"2">>}

-----------------------------------------------------------------------------
\* row r without its identifier and its date
Undated(r) == [r EXCEPT !.id = 0, !.date = <<>>]

\* the rows the generator of the step would return under the week start date startDate
GeneratedUnder(startDate) ==
    generateScheduleForWeek(currentWeek', startDate, <<>>,
                            IF ApplyStep THEN teacherName ELSE teacherName',
                            timetableData, scheduleData, ppctData,
                            FreshIds(UsedIds(scheduleData, equipmentData), Len(timetableData)))

(* C20 - A malformed week start date never halts generation: the generator
   emits one row per recognised slot, with the ppctNumbers it assigns under a
   valid date, and every emitted row carries an empty date. *)
C20_MalformedDateGeneration ==
    [][ MalformedDate(weekStartDate) /\ GenerationStep =>
            /\ \A r \in AddedRows : r.date = <<>>
            /\ {Undated(r) : r \in AddedRows} = {Undated(r) : r \in Rows(GeneratedUnder(StartDate1))}
      ]_vars

-----------------------------------------------------------------------------
(* Cell edits, apply template and week changes of one teacher under the catalogs
   the two managers can hold: subjects of the subject list that differ in case
   only, several entries of one key, entries without a quantity *)

Mlower == <<"m">>       \* the same subject in lower case, as 'Tin học 7' to 'Tin Học 7'
TX == <<"T", "X">>

CatalogTimetable == <<TimetableEntry(Thu2, 1, <<"M">>, <<"9">>, Anh)>>

LessonCatalog2 == <<PPCTEntry(<<"M">>, <<"1">>, <<"X">>), PPCTEntry(Mlower, <<"1">>, <<"T">>)>>
CatalogLessons == {LessonCatalog1, LessonCatalog2}

\* one entry under the lower-case subject
EquipmentCatalog2 == <<EquipmentConfigEntry(Mlower, <<"1">>, <<"T">>, <<>>)>>
\* two entries of one key
EquipmentCatalog3 == <<
    EquipmentConfigEntry(<<"M">>, <<"1">>, <<"T">>, <<>>),
    EquipmentConfigEntry(<<"M">>, <<"1">>, <<"X">>, <<"2">>) >>
\* two entries of one key, the name of the second a part of the first
EquipmentCatalog4 == <<
    EquipmentConfigEntry(<<"M">>, <<"1">>, TX, <<"2">>),
    EquipmentConfigEntry(<<"M">>, <<"1">>, <<"X">>, <<"3">>) >>
CatalogEquipments ==
    {EquipmentCatalog1, EquipmentCatalog2, EquipmentCatalog3, EquipmentCatalog4}

\* the cell the timetable fills and the one after it
CatalogCells == {<<0, 1>>, <<0, 2>>}

CatalogScheduleEdits == {
    <<"subject", <<"M">>>>, <<"subject", Mlower>>, <<"subject", <<>>>>,
    <<"ppctNumber", <<"1">>>>, <<"ppctNumber", <<>>>> }

CatalogEquipmentEdits == {
    <<"subject", <<"M">>>>, <<"subject", Mlower>>,
    <<"ppctNumber", <<"1">>>>, <<"ppctNumber", <<>>>>,
    <<"equipmentName", <<"N">>>>, <<"equipmentName", <<>>>>,
    <<"quantity", <<"5">>>>, <<"quantity", <<>>>> }

\* the timetable has been imported and the teacher chosen: week 1 is auto-populated
InitCatalog ==
    /\ timetableData = CatalogTimetable
    /\ ppctData \in CatalogLessons
    /\ equipmentConfigData \in CatalogEquipments
    /\ teacherName = Anh
    /\ currentWeek = 1
    /\ weekStartDate = StartDate1
    /\ edits = 0
    /\ LET r == AutoPopulate(<<>>, <<>>, teacherName, currentWeek, weekStartDate,
                             timetableData, ppctData, equipmentConfigData)
       IN  scheduleData = r.sched /\ equipmentData = r.equip

NextCatalog ==
    \/ currentWeek < MaxWeek /\ handleWeekChange(currentWeek + 1)
    \/ edits < MaxEdits + 1 /\ handleApplyTimetable
    \/ edits < MaxEdits + 1
          /\ \E c \in CatalogCells, e \in CatalogScheduleEdits :
                 scheduleCellChange(c[1], c[2], e[1], e[2])
    \/ edits < MaxEdits + 1
          /\ \E c \in CatalogCells, e \in CatalogEquipmentEdits :
                 equipmentCellChange(c[1], c[2], e[1], e[2])

SpecCatalog == InitCatalog /\ [][NextCatalog]_vars

-----------------------------------------------------------------------------
(* C21 - A lookup with an empty subject or lesson number finds nothing in      *)
(* every lookup path (generator title lookup, schedule cell edit, equipment    *)
(* projection of handleScheduleUpdate and of auto-populate, equipment cell     *)
(* auto-fill): a row written with an empty subject or an empty ppctNumber      *)
(* never receives a catalog title or catalog equipment.  Its lessonName is     *)
(* empty or the one it had, its equipmentName is empty, the one it had, or the *)
(* one typed.                                                                  *)

EmptyKey(r) == r.subject = <<>> \/ r.ppctNumber = <<>>

TypedNames == {e[2] : e \in {e \in CatalogEquipmentEdits : e[1] = "equipmentName"}}

LessonNamesBefore(r) == {old.lessonName : old \in {o \in Rows(scheduleData) : o.id = r.id}}

EquipmentNamesBefore(e) ==
    {old.equipmentName :
        old \in {o \in Rows(equipmentData) : SameCell(o, e) \/ o.id = e.id}}

C21_EmptyKeyFindsNothing ==
    [][/\ \A r \in Rows(scheduleData') \ Rows(scheduleData) :
              EmptyKey(r) => r.lessonName \in {<<>>} \cup LessonNamesBefore(r)
       /\ \A e \in Rows(equipmentData') \ Rows(equipmentData) :
              EmptyKey(e) =>
                  e.equipmentName \in {<<>>} \cup TypedNames \cup EquipmentNamesBefore(e)]_vars

\* a row without subject carries the lesson number of a catalog entry
C21_Witness ==
    /\ edits > 0
    /\ \E e \in Rows(equipmentData) :
           /\ e.subject = <<>>
           /\ \E i \in 1..Len(equipmentConfigData) :
                  trim(equipmentConfigData[i].lessonNumber) = trim(e.ppctNumber)
    /\ \E r \in Rows(scheduleData) :
           /\ r.subject = <<>>
           /\ \E i \in 1..Len(ppctData) : trim(ppctData[i].lessonNumber) = trim(r.ppctNumber)

-----------------------------------------------------------------------------
(* C22 - Catalog keys use the normalized subject: a row whose subject differs  *)
(* from a catalog entry's in case or whitespace only resolves to that entry,   *)
(* for the lesson catalog and the equipment catalog, in every lookup path.     *)
(* After an edit of the subject or the ppctNumber of a cell, the schedule row  *)
(* carries the title of a lesson entry of its normalized key, if there is one, *)
(* and the equipment row carries the equipment of the first equipment entry    *)
(* of its normalized key, if there is one.                                     *)

KeyEdits(fieldEdits) == {e \in fieldEdits : e[1] \in {"subject", "ppctNumber"}}

\* the rows a store holds at a cell of the active teacher's current week
CellRows(store, dayIndex, period) ==
    {r \in Rows(store) : /\ r.teacherName = teacherName
                         /\ r.week = currentWeek
                         /\ r.dayOfWeek = DAYS_OF_WEEK[dayIndex + 1]
                         /\ r.period = period}

\* the titles the lesson catalog holds under the normalized key of a row
TitlesOf(r) ==
    {ppctData[i].lessonName :
        i \in {i \in 1..Len(ppctData) :
                  /\ normalizeStr(ppctData[i].subject) = normalizeStr(r.subject)
                  /\ trim(ppctData[i].lessonNumber) = trim(r.ppctNumber)}}

HasEquipmentOfCatalog(e) ==
    (~EmptyKey(e) /\ ConfigIndex(equipmentConfigData, e) # 0)
        => includes(e.equipmentName,
                    equipmentConfigData[ConfigIndex(equipmentConfigData, e)].equipmentName)

HasTitleOfCatalog(r) == (~EmptyKey(r) /\ TitlesOf(r) # {}) => r.lessonName \in TitlesOf(r)

C22_NormalizedSubjectKeys ==
    [][edits' # edits =>
        \A c \in CatalogCells :
            /\ (\E e \in KeyEdits(CatalogScheduleEdits) :
                    scheduleCellChange(c[1], c[2], e[1], e[2]))
                   => /\ \A r \in CellRows(scheduleData', c[1], c[2]) : HasTitleOfCatalog(r)
                      /\ \A e \in CellRows(equipmentData', c[1], c[2]) :
                             HasEquipmentOfCatalog(e)
            /\ (\E e \in KeyEdits(CatalogEquipmentEdits) :
                    equipmentCellChange(c[1], c[2], e[1], e[2]))
                   => \A e \in CellRows(equipmentData', c[1], c[2]) :
                          HasEquipmentOfCatalog(e)]_vars

-----------------------------------------------------------------------------
(* C23 - Equipment index merge rule.  When the catalog holds several entries   *)
(* of one key, the indexed equipmentName is the first entry's name followed,   *)
(* in input order and joined by ", ", by each later name that is not already a *)
(* substring of the name accumulated so far; the indexed quantity is the first *)
(* entry's; the catalog entries are not modified.  An equipment row auto-      *)
(* filled from the index carries that name and that quantity ("1" when the     *)
(* first entry has none).                                                      *)

\* the catalog entries under the index key of a row, in input order
SameKeyEntries(e) ==
    SelectSeq(equipmentConfigData,
              LAMBDA c : EquipmentKey(c.subject, c.lessonNumber)
                             = EquipmentKey(e.subject, e.ppctNumber))

\* the name accumulated over the first k entries
RECURSIVE Accumulated(_, _)
Accumulated(entries, k) ==
    IF k = 1 THEN entries[1].equipmentName
    ELSE LET before == Accumulated(entries, k - 1)
         IN  IF includes(before, entries[k].equipmentName) THEN before
             ELSE before \o <<",", " ">> \o entries[k].equipmentName

FilledFromIndex(e) ==
    LET entries == SameKeyEntries(e)
    IN  (~EmptyKey(e) /\ entries # <<>>)
            => /\ e.equipmentName = Accumulated(entries, Len(entries))
               /\ e.quantity = IF entries[1].quantity # <<>> THEN entries[1].quantity
                               ELSE <<"1">>

C23_IndexMergeRule ==
    [][edits' # edits =>
        \A c \in CatalogCells :
            (\E e \in KeyEdits(CatalogEquipmentEdits) :
                 equipmentCellChange(c[1], c[2], e[1], e[2]))
                => /\ equipmentConfigData' = equipmentConfigData
                   /\ \A e \in CellRows(equipmentData', c[1], c[2]) : FilledFromIndex(e)]_vars

\* a row holds the merged name of the two entries of its key and the default quantity
C23_Witness ==
    /\ edits > 0
    /\ equipmentConfigData = EquipmentCatalog3
    /\ \E e \in Rows(equipmentData) :
           e.equipmentName = <<"T", ",", " ", "X">> /\ e.quantity = <<"1">>

-----------------------------------------------------------------------------
(* C24 - A manual edit of one schedule cell re-triggers the catalog lookup for *)
(* the edited row only: the equipment rows of the other cells of the same week *)
(* keep their equipmentName and quantity, hand-entered values included.        *)

KeepsEquipment(old) ==
    \E new \in Rows(equipmentData') :
        /\ new.id = old.id
        /\ new.equipmentName = old.equipmentName
        /\ new.quantity = old.quantity

C24_OtherCellsKeepEquipment ==
    [][edits' # edits =>
        \A c \in CatalogCells :
            (\E e \in CatalogScheduleEdits : scheduleCellChange(c[1], c[2], e[1], e[2]))
                => \A old \in Rows(equipmentData) :
                       (/\ old.teacherName = teacherName
                        /\ old.week = currentWeek
                        /\ old \notin CellRows(equipmentData, c[1], c[2]))
                           => KeepsEquipment(old)]_vars

-----------------------------------------------------------------------------
(* C25 - Equipment projection affects the current week only.  A step of        *)
(* handleScheduleUpdate, and a step that only runs auto-populate, leaves every *)
(* equipment row of the active teacher in another week, and every equipment    *)
(* row of the other teachers, unchanged in all fields.                         *)

\* the equipment rows outside the active teacher's current week once the step is done
OutsideProjection ==
    {e \in Rows(equipmentData) : e.teacherName # teacherName' \/ e.week # currentWeek'}

C25_ProjectionOfCurrentWeekOnly ==
    [][(edits' = edits \/ ScheduleEditStep)
           => OutsideProjection \subseteq Rows(equipmentData')]_vars

\* the schedule sheet has been edited while the equipment store holds rows of the
\* teacher's other week and rows of the other teacher
C25_Witness ==
    /\ \E s \in Rows(scheduleData) :
           s.teacherName = teacherName /\ s.week = currentWeek /\ s.notes = <<"n">>
    /\ \E e \in Rows(equipmentData) : e.teacherName = teacherName /\ e.week # currentWeek
    /\ \E e \in Rows(equipmentData) : e.teacherName # teacherName

-----------------------------------------------------------------------------
(* C26 - Quantity rule.  In every equipment row produced or updated by the     *)
(* projection, by auto-populate or by an equipment cell edit, an empty         *)
(* equipmentName implies an empty quantity and a non-empty equipmentName a     *)
(* non-empty quantity.                                                         *)

QuantityRule(e) == (e.equipmentName = <<>>) <=> (e.quantity = <<>>)

C26_QuantityRule ==
    [][\A e \in Rows(equipmentData') \ Rows(equipmentData) : QuantityRule(e)]_vars

-----------------------------------------------------------------------------
(* Edits and navigation over stores that hold rows without teacherName, with or
   without a teacher name entered *)

LegacySchedule ==
    <<ScheduleRow(1, 1, Thu2, StartDate1, 1, <<"M">>, <<"9">>, <<"1">>, <<"X">>, <<>>,
                  undefined)>>

LegacyEquipment ==
    <<EquipmentRow(2, 1, Thu2, StartDate1, 1, <<"M">>, <<"9">>, <<"1">>, <<"T">>, <<"1">>,
                   undefined)>>

\* the names the teacher input can hold, the empty one included
TypedTeacherNames == {Anh, <<>>}

InitLegacy ==
    /\ scheduleData = LegacySchedule
    /\ equipmentData = LegacyEquipment
    /\ timetableData = Timetable1
    /\ ppctData = LessonCatalog1
    /\ equipmentConfigData = EquipmentCatalog1
    /\ teacherName = <<>>
    /\ currentWeek = 1
    /\ weekStartDate = StartDate1
    /\ edits = 0

NextLegacy ==
    \/ \E name \in TypedTeacherNames : setTeacherName(name)
    \/ \E newWeek \in 1..MaxWeek : handleWeekChange(newWeek)
    \/ edits < MaxEdits
          /\ \E c \in EditCells, e \in ScheduleEdits : scheduleCellChange(c[1], c[2], e[1], e[2])
    \/ edits < MaxEdits /\ scheduleClearWeek
    \/ edits < MaxEdits
          /\ \E c \in EditCells, e \in EquipmentEdits : equipmentCellChange(c[1], c[2], e[1], e[2])
    \/ edits < MaxEdits /\ equipmentClearWeek

SpecLegacy == InitLegacy /\ [][NextLegacy]_vars

-----------------------------------------------------------------------------
(* C27 - The view partition and the reconciler partition agree.  Passing the   *)
(* active teacher's view (currentTeacherSchedule, currentTeacherEquipment)     *)
(* back unchanged through handleScheduleUpdate or handleEquipmentUpdate leaves *)
(* the global store with the same multiset of rows, for every active teacher   *)
(* name, the empty one included, and for stores that hold rows without         *)
(* teacherName: no row is duplicated and the ids stay unique.                  *)

CountIn(store, r) == Cardinality({i \in 1..Len(store) : store[i] = r})

SameRows(before, after) ==
    \A r \in Rows(before) \cup Rows(after) : CountIn(before, r) = CountIn(after, r)

UniqueIds(store) == \A i, j \in 1..Len(store) : store[i].id = store[j].id => i = j

\* "clear week" on a week in which the view has no row hands the view back as it is
ScheduleViewReturned ==
    LET view == currentTeacherRows(scheduleData, teacherName)
    IN  ScheduleClearWeek(view, currentWeek) = view /\ scheduleClearWeek

EquipmentViewReturned ==
    LET view == currentTeacherRows(equipmentData, teacherName)
    IN  EquipmentClearWeek(view, currentWeek) = view /\ equipmentClearWeek

C27_ViewAndReconcilerAgree ==
    [][edits' # edits =>
           /\ ScheduleViewReturned
                  => SameRows(scheduleData, scheduleData') /\ UniqueIds(scheduleData')
           /\ EquipmentViewReturned
                  => SameRows(equipmentData, equipmentData') /\ UniqueIds(equipmentData')]_vars

-----------------------------------------------------------------------------
(* C28 - After apply template, the rows it generated are owned by the teacher  *)
(* who is active once the operation completes: their teacherName is the active *)
(* teacherName, so they are shown and the teacher has data in the week.        *)

C28_AppliedRowsOwnedByActiveTeacher ==
    [][ApplyStep =>
           /\ \A r \in AddedRows : r.teacherName = teacherName'
           /\ hasData(scheduleData', currentWeek', teacherName')]_vars

-----------------------------------------------------------------------------
(* C29 - Auto-populate never removes or replaces an existing equipment row:    *)
(* every equipment row present before a step that only runs auto-populate is   *)
(* present after it with the same id, equipmentName and quantity, the rows     *)
(* entered by hand for a week without schedule rows included.                  *)

C29_AutoPopulateKeepsEquipment ==
    [][EffectStep => \A old \in Rows(equipmentData) : KeepsEquipment(old)]_vars

-----------------------------------------------------------------------------
(* C30 - All lookup paths of one catalog agree.  The title the schedule cell   *)
(* edit takes from ppctMap is the title getLessonName returns for the same     *)
(* subject and number, and the equipment the equipment cell auto-fill takes    *)
(* from equipmentMap is the equipment the projection resolves for the same     *)
(* subject and number, also when the catalog holds several entries of one key. *)

TitleOfGenerator(r) == getLessonName(ppctData, r.subject, r.ppctNumber)

HasTitleOfGenerator(r) ==
    (~EmptyKey(r) /\ TitleOfGenerator(r) # <<>>) => r.lessonName = TitleOfGenerator(r)

HasEquipmentOfProjection(e) ==
    LET ci == ConfigIndex(equipmentConfigData, e)
    IN  (~EmptyKey(e) /\ ci # 0)
            => /\ e.equipmentName = equipmentConfigData[ci].equipmentName
               /\ e.quantity = IF equipmentConfigData[ci].quantity # <<>>
                               THEN equipmentConfigData[ci].quantity ELSE <<"1">>

C30_LookupPathsAgree ==
    [][edits' # edits =>
        \A c \in CatalogCells :
            /\ (\E e \in KeyEdits(CatalogScheduleEdits) :
                    scheduleCellChange(c[1], c[2], e[1], e[2]))
                   => \A r \in CellRows(scheduleData', c[1], c[2]) : HasTitleOfGenerator(r)
            /\ (\E e \in KeyEdits(CatalogEquipmentEdits) :
                    equipmentCellChange(c[1], c[2], e[1], e[2]))
                   => \A e \in CellRows(equipmentData', c[1], c[2]) :
                          HasEquipmentOfProjection(e)]_vars

=============================================================================
